---------------------------- MODULE Spec2Model ----------------------------
(***************************************************************************)
(* ColorHoster: an OpenRGB SDK server in front of QMK/VIA keyboards.       *)
(*                                                                         *)
(* The module models, from the Rust sources,                               *)
(*   - the differential chunker            (src/src/chunks.rs),            *)
(*   - the colour-range merge of the actor (src/src/keyboard/mod.rs),      *)
(*   - the keyboard actor: coalescing queue, worker task, read-only        *)
(*     queries and the controller's update operations                      *)
(*                     (src/src/keyboard/mod.rs, src/src/keyboard.rs),     *)
(*   - the device channel: reader task and request_report                  *)
(*                                          (src/src/device.rs).           *)
(* Each part has its own specification (SpecChunks, SpecMerge, Spec,       *)
(* SpecDevice) over its own group of variables; the variables of the other *)
(* parts stay at their initial value.                                      *)
(***************************************************************************)
EXTENDS Integers, Sequences, FiniteSets, TLC

VARIABLES
    \* ChunksChanges (src/src/chunks.rs:1-6) and the chunks collected from it
    v, offset, chunk_size, reference, yielded, exhausted,
    \* one call of merge_colors (src/src/keyboard/mod.rs:245-280): its
    \* arguments and what it returned
    merge_args, merge_result,
    \* the keyboard actor (src/src/keyboard/mod.rs:21-25): the pending-action
    \* map, whether its std Mutex is poisoned, the Notify permit, the holder
    \* of the controller's async Mutex
    actions, poisoned, notify_permit, keyboard_lock,
    \* the worker task (src/src/keyboard/mod.rs:44-74): where it is, the action
    \* it removed from the map, the controller operations of that action not
    \* yet started, the reports of the running operation not yet written
    worker, action, todo, writes,
    \* the controller's KeyboardState (src/src/keyboard.rs:27-34) and what the
    \* keyboard itself holds
    state, device,
    \* the tasks running read-only queries, and the perform_action calls the
    \* clients may still make
    readers, calls_left,
    \* history: per variant the latest action committed to the map, the
    \* variants in the order of their latest commit, the update_colors calls
    \* merged into the queued UpdateColors entry and into the worker's action
    latest, order, queued_calls, action_calls,
    \* whether the handle_action call that is running has failed, the cache
    \* and the keyboard as they were when it was called, and the Keyboard
    \* handles that exist outside the worker task
    failed, before, handles,
    \* the device channel (src/src/device.rs): the mpsc channel of
    \* registrations, the reader task's pending list, whether the reader task
    \* runs, the slot of each request_report call and where the call is
    mailbox, requests, reader, slots, callers,
    \* the keyboard's side of the HID pipe: output reports written and not yet
    \* answered, input reports not yet read
    hid_out, hid_in,
    \* one controller used through save_state and load_state
    \* (src/src/keyboard.rs:253-281): its KeyboardState, the text of the saved
    \* profile, the state that text was saved from, and how far a save
    \* followed by a load has come
    keyboard, profile, kb_saved, round,
    \* the registry (src/src/keyboards.rs:23-27): the ordered device map, the
    \* pending configs by (VID,PID), the number of change events broadcast
    keyboards, configs, sender,
    \* the HID devices attached to the host, those the initial enumeration has
    \* still to visit, the hotplug events the watcher may still receive, the
    \* event it handled last, and the last GetControllerCount answer
    attached, enumerating, events_left, event, count_reply,
    \* one client connection (src/src/main.rs:135-160): the request handler
    \* it is served by, the controllers of the registered keyboards in index
    \* order, whether the connection is open and the error that ended it, the
    \* bytes written to the client, the HID reports written to the keyboards,
    \* the client's name, the requests the client may still send and what the
    \* server did with the last one
    dispatcher, devices, connection, failure, responses, sent_reports, client,
    requests_left, served,
    \* one controller called directly (src/src/keyboard.rs:92-243): its
    \* KeyboardState, the operation called last, the reports that call wrote
    \* and the number of calls made
    controller, operation, emitted, calls_made,
    \* one Report<N> (src/src/report.rs:11-14): its data array, whether the
    \* build checks integer overflow, the access made last with what it
    \* returned, and the accesses the owner may still make
    raw, overflow_checks, accessed, accesses_left,
    \* one keyboard definition (src/src/config.rs:247-257): the keys of its
    \* keymap, the controls and the effects dropdown of its menus; the Config
    \* parsed_config from it and what count_leds returned for that Config
    keymap, menu_controls, effects_dropdown, parsed_config, led_total,
    \* the send_report futures joined on one KeyboardDevice
    \* (src/src/device.rs:14-19, 89-108): whether the build targets Windows,
    \* the holder of win_lock, and where each future stands
    target_windows, win_lock, senders,
    \* the registry's async Mutex (src/src/keyboards.rs:24) and its users:
    \* the holder of the lock, where each connection's handler stands, what
    \* each client has sent of its request, and where the hotplug task stands
    registry_lock, conns, sockets, hotplug,
    \* one update_colors call on a keyboard of many LEDs: the cached state,
    \* the image the device holds, the call, the reports still to be written
    frame_cache, frame_device, frame_call, frame_reports,
    \* what an into_config call on the actor's handle came to
    recovered,
    \* the buffer a GetControllerData request is answered with, field by field
    controller_data

chunkVars == <<v, offset, chunk_size, reference, yielded, exhausted>>
mergeVars == <<merge_args, merge_result>>
queueVars == <<actions, poisoned, notify_permit, latest, order, queued_calls>>
workerVars == <<worker, action, todo, writes, action_calls, failed, before>>
actorVars == <<queueVars, workerVars, keyboard_lock, state, device, readers, calls_left,
               handles>>

channelVars == <<mailbox, requests, reader, slots, callers, hid_out, hid_in>>

profileVars == <<keyboard, profile, kb_saved, round>>

registryVars == <<keyboards, configs, sender, attached, enumerating, events_left,
                  event, count_reply>>

serverVars == <<dispatcher, devices, connection, failure, responses, sent_reports,
                client, requests_left, served>>

controllerVars == <<controller, operation, emitted, calls_made>>

reportVars == <<raw, overflow_checks, accessed, accesses_left>>

configVars == <<keymap, menu_controls, effects_dropdown, parsed_config, led_total>>

sendVars == <<target_windows, win_lock, senders>>

lockVars == <<registry_lock, conns, sockets, hotplug>>

frameVars == <<frame_cache, frame_device, frame_call, frame_reports>>

recoverVars == <<recovered>>

dataVars == <<controller_data>>

vars == <<chunkVars, mergeVars, actorVars, channelVars, profileVars, registryVars,
          serverVars,
          controllerVars,
          reportVars,
          configVars,
          sendVars,
          lockVars,
          frameVars,
          recoverVars,
          dataVars>>

\* the variables no step of the chunker, of merge_colors, of the actor, of the
\* device channel and of the profile operations changes
notChunks == <<mergeVars, actorVars, channelVars, profileVars, registryVars, serverVars,
    controllerVars,
    reportVars,
    configVars,
    sendVars,
    lockVars,
    frameVars,
    recoverVars,
    dataVars>>
notMerge == <<chunkVars, actorVars, channelVars, profileVars, registryVars, serverVars,
    controllerVars,
    reportVars,
    configVars,
    sendVars,
    lockVars,
    frameVars,
    recoverVars,
    dataVars>>
notActor == <<chunkVars, mergeVars, channelVars, profileVars, registryVars, serverVars,
    controllerVars,
    reportVars,
    configVars,
    sendVars,
    lockVars,
    frameVars,
    recoverVars,
    dataVars>>
notChannel == <<chunkVars, mergeVars, actorVars, profileVars, registryVars, serverVars,
    controllerVars,
    reportVars,
    configVars,
    sendVars,
    lockVars,
    frameVars,
    recoverVars,
    dataVars>>
notProfile == <<chunkVars, mergeVars, actorVars, channelVars, registryVars, serverVars,
    controllerVars,
    reportVars,
    configVars,
    sendVars,
    lockVars,
    frameVars,
    recoverVars,
    dataVars>>
\* ... no step of the registry and no step of a client connection
notRegistry == <<chunkVars, mergeVars, actorVars, channelVars, profileVars, serverVars,
    controllerVars,
    reportVars,
    configVars,
    sendVars,
    lockVars,
    frameVars,
    recoverVars,
    dataVars>>
notServer == <<chunkVars, mergeVars, actorVars, channelVars, profileVars, registryVars,
    controllerVars,
    reportVars,
    configVars,
    sendVars,
    lockVars,
    frameVars,
    recoverVars,
    dataVars>>
notController == <<chunkVars, mergeVars, actorVars, channelVars,
    profileVars, registryVars, serverVars,
    reportVars,
    configVars,
    sendVars,
    lockVars,
    frameVars,
    recoverVars,
    dataVars>>
notReport == <<chunkVars, mergeVars, actorVars, channelVars,
    profileVars, registryVars, serverVars, controllerVars,
    configVars,
    sendVars,
    lockVars,
    frameVars,
    recoverVars,
    dataVars>>
notConfig == <<chunkVars, mergeVars, actorVars, channelVars,
    profileVars, registryVars, serverVars, controllerVars, reportVars,
    sendVars,
    lockVars,
    frameVars,
    recoverVars,
    dataVars>>
notSend == <<chunkVars, mergeVars, actorVars, channelVars,
    profileVars, registryVars, serverVars, controllerVars, reportVars, configVars,
    lockVars,
    frameVars,
    recoverVars,
    dataVars>>
notLock == <<chunkVars, mergeVars, actorVars, channelVars,
    profileVars, registryVars, serverVars, controllerVars, reportVars, configVars, sendVars,
    frameVars,
    recoverVars,
    dataVars>>
notFrame == <<chunkVars, mergeVars, actorVars, channelVars,
    profileVars, registryVars, serverVars, controllerVars, reportVars, configVars, sendVars, lockVars,
    recoverVars,
    dataVars>>
notRecover == <<chunkVars, mergeVars, actorVars, channelVars,
    profileVars, registryVars, serverVars, controllerVars, reportVars, configVars, sendVars, lockVars, frameVars,
    dataVars>>

(***************************************************************************)
(* Bounds of the model.                                                    *)
(***************************************************************************)
\* longest slice handed to chunk_changed
MaxLen == 4
\* largest chunk_size handed to chunk_changed
MaxChunk == 3

\* longest colour list of one update_colors call
MaxColors == 3
\* largest offset of one update_colors call
MaxOffset == 3

\* config.count_leds(): the LEDs of the keyboard
LedCount == 2
\* longest colour list of an update_colors call made on the actor
MaxFrame == 2
\* perform_action calls made on one actor
MaxCalls == 3
\* tasks running read-only queries on one actor
NumReaders == 1
\* concurrent request_report calls on one device channel
NumCallers == 2
\* hotplug events the watcher receives
MaxEvents == 4
\* keyboards registered when a client connects, and the largest device index
\* a client sends
MaxDevices == 2
\* requests a client sends on one connection
MaxRequests == 2
\* the largest N of a Report<N>
MaxReport == 4
\* usize::MAX of the machine word the Report model computes in; the word is
\* scaled down, its arithmetic is modulo MaxUsize + 1
MaxUsize == 15
\* index and range accesses made on one Report
MaxAccesses == 2
\* keys of a keymap
MaxKeys == 3
\* send_report futures polled together on one device
NumSenders == 3
\* client connections served at the same time
NumConnections == 2
\* Keyboard handles of one actor alive at the same time
MaxHandles == 2
\* count_leds() of the smaller keyboard of the colour-frame model
FrameLeds == 30
\* controls of a menu
MaxControls == 2

\* the items compared by the chunker (T: PartialEq)
Items == {0, 1}

\* Option<Rgb>::None, the "do not change" entry of a merged colour list
None == "None"
\* the RGB colours clients send: rgb(255,255,255) and rgb(128,0,0)
Palette == {"white", "maroon"}

Min(a, b) == IF a < b THEN a ELSE b
Max(a, b) == IF a > b THEN a ELSE b

SeqsUpTo(S, n) == UNION {[1..k -> S] : k \in 0..n}

(***************************************************************************)
(* The differential chunker.  Rust slices are 0-based; a TLA+ sequence s   *)
(* holds Rust's s[i] at s[i + 1].                                          *)
(***************************************************************************)
\* v[i] != reference[i], both 0-based
Differs(new, ref, i) == new[i + 1] # ref[i + 1]

\* self.v[self.offset..].iter().enumerate().find(|(i, v)| **v != self.reference[*i + self.offset])
\* the index relative to off of the first differing element, -1 for None
FindFirstDiffering(new, ref, off) ==
    LET hits == {i \in 0..(Len(new) - off - 1) : Differs(new, ref, i + off)}
    IN  IF hits = {} THEN -1 ELSE CHOOSE i \in hits : \A j \in hits : i <= j

\* a window of one element whatever the chunk size
MaxEndOneItem(start, cs, n) == Min(start + 1, n)
\* (start + self.chunk_size).min(self.v.len())
MaxEnd(start, cs, n) == Min(start + cs, n)

\* a chunk that ends at the first differing element
RFindLastFirstOnly(new, ref, start, max_end) == 0
\* a chunk that always runs to the end of the window
RFindLastUntrimmed(new, ref, start, max_end) == max_end - start - 1
\* self.v[start..max_end].iter().enumerate().rfind(|(i, v)| **v != self.reference[*i + start]).unwrap()
\* the index relative to start of the last differing element of the window
RFindLastDiffering(new, ref, start, max_end) ==
    LET hits == {i \in 0..(max_end - start - 1) : Differs(new, ref, i + start)}
    IN  CHOOSE i \in hits : \A j \in hits : j <= i

\* &self.v[start..=start + count]
SliceIncl(s, from, to) == [k \in 1..(to - from + 1) |-> s[from + k]]

\* One call of ChunksChanges::next on an iterator (new, ref, cs, off): the item
\* it yields (<<>> for None) and the iterator's offset afterwards.
ChunkStep(new, ref, cs, off) ==
    IF off >= Len(new) THEN [item |-> <<>>, offset |-> off]
    ELSE LET index == FindFirstDiffering(new, ref, off)
         IN  IF index = -1 THEN [item |-> <<>>, offset |-> off]
             ELSE LET start   == off + index
                      max_end == MaxEnd(start, cs, Len(new))
                      count   == RFindLastDiffering(new, ref, start, max_end)
                  IN  [item   |-> <<[offset |-> start,
                                     slice  |-> SliceIncl(new, start, start + count)]>>,
                       offset |-> max_end]

\* chunk_changed: the asserts are the precondition, the iterator starts at 0
ChunksInit ==
    /\ v \in SeqsUpTo(Items, MaxLen)
    /\ reference \in SeqsUpTo(Items, MaxLen)
    /\ chunk_size \in 1..MaxChunk
    /\ chunk_size # 0
    /\ Len(v) <= Len(reference)
    /\ offset = 0
    /\ yielded = <<>>
    /\ exhausted = FALSE

ChunksIdle ==
    /\ v = <<>>
    /\ reference = <<>>
    /\ chunk_size = 1
    /\ offset = 0
    /\ yielded = <<>>
    /\ exhausted = TRUE

ChunksUnchanged == UNCHANGED chunkVars

\* Iterator::next, called by the consumer until it returns None
ChunksNext ==
    /\ ~exhausted
    /\ LET r == ChunkStep(v, reference, chunk_size, offset)
       IN  /\ offset' = r.offset
           /\ yielded' = yielded \o r.item
           /\ exhausted' = (r.item = <<>>)
    /\ UNCHANGED <<v, reference, chunk_size>>
    /\ UNCHANGED notChunks

(***************************************************************************)
(* merge_colors (src/src/keyboard/mod.rs:245-280).  The arithmetic is i32; *)
(* the model's values are far from its limits.  A negative i32 cast with   *)
(* `as usize` becomes a value of at least 2^64 - 2^31, and every slice     *)
(* range built from it is out of bounds or reversed (with overflow checks  *)
(* the addition itself panics): in all builds the call panics.             *)
(***************************************************************************)
Panicked == [panicked |-> TRUE, colors |-> <<>>, offset |-> 0]

merge_colors(colors_old, offset_old, colors_new, offset_new) ==
    LET new_left     == ~(offset_old < offset_new)
        colors_left  == IF new_left THEN colors_new ELSE colors_old
        offset_left  == IF new_left THEN offset_new ELSE offset_old
        colors_right == IF new_left THEN colors_old ELSE colors_new
        offset_right == IF new_left THEN offset_old ELSE offset_new
        left_len     == Len(colors_left)
        right_len    == Len(colors_right)
        gap          == offset_right - (offset_left + left_len)
        new_len      == left_len + gap + right_len
        off          == IF new_left THEN Max(left_len + gap, left_len)
                                    ELSE left_len + gap
        count        == IF new_left THEN Min(right_len + gap, right_len)
                                    ELSE right_len
        \* colors_left.resize(new_len, None): truncates or pads with None
        resized      == [k \in 1..new_len |->
                            IF k <= left_len THEN colors_left[k] ELSE None]
        \* colors_left[offset..offset + count] and
        \* colors_right[right_len - count..right_len] must be valid ranges
        bad_range    == \/ new_len < 0 \/ off < 0 \/ count < 0
                        \/ off + count > new_len
                        \/ right_len - count < 0
    IN  IF bad_range THEN Panicked
        ELSE [panicked |-> FALSE,
              colors   |-> [k \in 1..new_len |->
                               IF off < k /\ k <= off + count
                               THEN colors_right[right_len - count + (k - off)]
                               ELSE resized[k]],
              offset   |-> offset_left]

\* the colour lists of UpdateColors actions: clients send colours, a merged
\* list may hold None
ColorLists == SeqsUpTo(Palette \cup {None}, MaxColors)

NoArgs == [colors_old |-> <<>>, offset_old |-> 0, colors_new |-> <<>>, offset_new |-> 0]

\* merge_result before the call returned
NotReturned == [returned |-> FALSE, panicked |-> FALSE, colors |-> <<>>, offset |-> 0]

\* the arguments of the call: any two colour lists at any two offsets
MergeInit ==
    /\ merge_args \in [colors_old : ColorLists, offset_old : 0..MaxOffset,
                        colors_new : ColorLists, offset_new : 0..MaxOffset]
    /\ merge_result = NotReturned

MergeIdle ==
    /\ merge_args = NoArgs
    /\ merge_result = NotReturned

MergeUnchanged == UNCHANGED mergeVars

\* the call merge_colors(colors_old, offset_old, colors_new, offset_new)
MergeCall ==
    /\ ~merge_result.returned
    /\ LET m == merge_colors(merge_args.colors_old, merge_args.offset_old,
                             merge_args.colors_new, merge_args.offset_new)
       IN  merge_result' = [returned |-> TRUE, panicked |-> m.panicked,
                            colors |-> m.colors, offset |-> m.offset]
    /\ UNCHANGED merge_args
    /\ UNCHANGED notMerge

(***************************************************************************)
(* The keyboard controller (src/src/keyboard.rs): the cached KeyboardState *)
(* and the reports each operation emits.  An operation is modelled by its  *)
(* synchronous part, [err, st, reports]: the error it returns before any   *)
(* write, the state it leaves and the reports whose writes it then awaits. *)
(***************************************************************************)
\* device: KeyboardDevice<33>
ReportSize == 33
\* Report::len: N - 1 payload bytes
ReportLen == ReportSize - 1
\* a chroma chunk of as many LEDs as a report has data bytes
ChromaChunkWide == ReportLen - 5
\* (report_template.len() - 5) / 2 and report_template.len() - 5
ChromaChunk == (ReportLen - 5) \div 2
BrightnessChunk == ReportLen - 5

\* rgb.into_color::<Hsv>().into_format::<u8>() on the colours of the model:
\* rgb(255,255,255), rgb(128,0,0), rgb(255,0,0), rgb(128,128,128), rgb(0,0,0)
RgbToHsv(rgb) ==
    CASE rgb = "white"  -> [hue |-> 0, saturation |-> 0,   value |-> 255]
      [] rgb = "maroon" -> [hue |-> 0, saturation |-> 255, value |-> 128]
      [] rgb = "red"    -> [hue |-> 0, saturation |-> 255, value |-> 255]
      [] rgb = "grey"   -> [hue |-> 0, saturation |-> 0,   value |-> 128]
      [] rgb = "black"  -> [hue |-> 0, saturation |-> 0,   value |-> 0]

\* Hsv::new(h, s, v).into_format::<f32>().into_color::<Rgb>() on the same colours
HsvToRgb(chroma, value) ==
    CASE chroma = <<0, 0>>   /\ value = 255 -> "white"
      [] chroma = <<0, 255>> /\ value = 128 -> "maroon"
      [] chroma = <<0, 255>> /\ value = 255 -> "red"
      [] chroma = <<0, 0>>   /\ value = 128 -> "grey"
      [] chroma = <<0, 0>>   /\ value = 0   -> "black"
      [] chroma = <<0, 255>> /\ value = 0   -> "black"

\* all chunks of new.chunk_changed(cs, ref), collected
RECURSIVE ChunkChanged(_, _, _, _)
ChunkChanged(new, ref, cs, off) ==
    LET r == ChunkStep(new, ref, cs, off)
    IN  IF r.item = <<>> THEN <<>>
        ELSE r.item \o ChunkChanged(new, ref, cs, r.offset)

\* &s[from..]
SliceFrom(s, from) == [k \in 1..(Len(s) - from) |-> s[from + k]]

\* s[at..at + data.len()].copy_from_slice(data)
CopyInto(s, at, data) ==
    [k \in 1..Len(s) |-> IF at < k /\ k <= at + Len(data) THEN data[k - at] ELSE s[k]]

\* the colour written for a None entry of a merged list: the LED keeps what
\* the cache holds for it
ResolveNone(st, led) ==
    [hue |-> st.chroma[led + 1][1], saturation |-> st.chroma[led + 1][2],
     value |-> st.value[led + 1]]

NoEffect(st) == [err |-> FALSE, st |-> st, reports |-> <<>>]
Failed(st) == [err |-> TRUE, st |-> st, reports |-> <<>>]

\* a report: its subcommand, bytes 3 and 4 of a matrix report, and its data,
\* (h, s) pairs for MATRIX_CHROMA and bytes for every other report
ChromaReport(off, chunk) ==
    [cmd |-> "MATRIX_CHROMA", start |-> (chunk.offset + off) % 256,
     count |-> Len(chunk.slice) % 256, pairs |-> chunk.slice, data |-> <<>>]

BrightnessReport(off, chunk) ==
    [cmd |-> "MATRIX_BRIGHTNESS", start |-> (chunk.offset + off) % 256,
     count |-> Len(chunk.slice) % 256, pairs |-> <<>>, data |-> chunk.slice]

ValueReport(cmd, bytes) ==
    [cmd |-> cmd, start |-> 0, count |-> 0, pairs |-> <<>>, data |-> bytes]

\* a controller that writes the value stream whatever the flag says
MaybeBrightnessAlways(with_brightness, brightness_reports) == brightness_reports
\* with_brightness.then_some(brightness_reports).into_iter().flatten()
MaybeBrightness(with_brightness, brightness_reports) ==
    IF with_brightness THEN brightness_reports ELSE <<>>

update_colors(st, colors, off, with_brightness) ==
    IF off + Len(colors) > Len(st.chroma) THEN Failed(st)
    ELSE LET hsv == [k \in 1..Len(colors) |->
                        IF colors[k] = None THEN ResolveNone(st, off + k - 1)
                        ELSE RgbToHsv(colors[k])]
             brightness == [k \in 1..Len(colors) |-> hsv[k].value]
             chroma == [k \in 1..Len(colors) |-> <<hsv[k].hue, hsv[k].saturation>>]
             chroma_chunks ==
                 ChunkChanged(chroma, SliceFrom(st.chroma, off), ChromaChunk, 0)
             brightness_chunks ==
                 ChunkChanged(brightness, SliceFrom(st.value, off), BrightnessChunk, 0)
             chroma_reports ==
                 [k \in 1..Len(chroma_chunks) |->
                     ChromaReport(off, chroma_chunks[k])]
             brightness_reports ==
                 [k \in 1..Len(brightness_chunks) |->
                     BrightnessReport(off, brightness_chunks[k])]
         IN  [err     |-> FALSE,
              st      |-> [st EXCEPT
                              !.chroma = CopyInto(@, off, chroma),
                              !.value = IF with_brightness
                                        THEN CopyInto(@, off, brightness) ELSE @],
              reports |-> chroma_reports \o
                          MaybeBrightness(with_brightness, brightness_reports)]

update_color(st, color) ==
    LET hsv == RgbToHsv(color)
    IN  IF hsv.hue # st.color[1] \/ hsv.saturation # st.color[2]
        THEN [err |-> FALSE,
              st |-> [st EXCEPT !.color = <<hsv.hue, hsv.saturation>>],
              reports |-> <<ValueReport("COLOR", <<hsv.hue, hsv.saturation>>)>>]
        ELSE NoEffect(st)

update_effect(st, effect) ==
    IF effect # st.effect
    THEN [err |-> FALSE, st |-> [st EXCEPT !.effect = effect],
          reports |-> <<ValueReport("EFFECT", <<effect>>)>>]
    ELSE NoEffect(st)

\* a controller that writes the speed without looking at its cache
update_speed_always(st, speed) ==
    [err |-> FALSE, st |-> [st EXCEPT !.speed = speed],
     reports |-> <<ValueReport("SPEED", <<speed>>)>>]

update_speed(st, speed) ==
    IF speed # st.speed
    THEN [err |-> FALSE, st |-> [st EXCEPT !.speed = speed],
          reports |-> <<ValueReport("SPEED", <<speed>>)>>]
    ELSE NoEffect(st)

update_brightness(st, brightness) ==
    IF brightness # st.brightness
    THEN [err |-> FALSE, st |-> [st EXCEPT !.brightness = brightness],
          reports |-> <<ValueReport("BRIGHTNESS", <<brightness>>)>>]
    ELSE NoEffect(st)

\* the cached values are left as they were
reset_brightness(st) ==
    LET chunks == ChunkChanged([k \in 1..Len(st.value) |-> 255], st.value,
                               BrightnessChunk, 0)
    IN  [err |-> FALSE, st |-> st,
         reports |-> [k \in 1..Len(chunks) |->
                         BrightnessReport(0, chunks[k])]]

persist_state(st) ==
    [err |-> FALSE, st |-> st,
     reports |-> <<ValueReport("SAVE", <<>>)>>]

\* what the keyboard does with an output report (the SET and SAVE commands
\* of the QMK protocol)
ApplyReport(dev, r) ==
    CASE r.cmd = "MATRIX_CHROMA" ->
             [dev EXCEPT !.chroma = CopyInto(@, r.start, SubSeq(r.pairs, 1, r.count)),
                         !.saved = FALSE]
      [] r.cmd = "MATRIX_BRIGHTNESS" ->
             [dev EXCEPT !.value = CopyInto(@, r.start, SubSeq(r.data, 1, r.count)),
                         !.saved = FALSE]
      [] r.cmd = "COLOR" -> [dev EXCEPT !.color = r.data, !.saved = FALSE]
      [] r.cmd = "EFFECT" -> [dev EXCEPT !.effect = r.data[1], !.saved = FALSE]
      [] r.cmd = "SPEED" -> [dev EXCEPT !.speed = r.data[1], !.saved = FALSE]
      [] r.cmd = "BRIGHTNESS" -> [dev EXCEPT !.brightness = r.data[1], !.saved = FALSE]
      [] r.cmd = "SAVE" -> [dev EXCEPT !.saved = TRUE]

(***************************************************************************)
(* The keyboard actor (src/src/keyboard/mod.rs).                           *)
(***************************************************************************)
Tags == {"UpdateColors", "UpdateEffect", "UpdateSpeed", "UpdateBrightness",
         "UpdateColor", "LoadState", "PersistState", "ResetBrightness"}

\* KeyboardAction; the fields a variant does not have keep these defaults
NoAction == [tag |-> "none", colors |-> <<>>, offset |-> 0, with_brightness |-> FALSE,
             value |-> 0, color |-> "white", data |-> ""]

UpdateColors(colors, off, with_brightness) ==
    [NoAction EXCEPT !.tag = "UpdateColors", !.colors = colors, !.offset = off,
                     !.with_brightness = with_brightness]
UpdateEffect(effect) == [NoAction EXCEPT !.tag = "UpdateEffect", !.value = effect]
UpdateSpeed(speed) == [NoAction EXCEPT !.tag = "UpdateSpeed", !.value = speed]
UpdateBrightness(b) == [NoAction EXCEPT !.tag = "UpdateBrightness", !.value = b]
UpdateColor(color) == [NoAction EXCEPT !.tag = "UpdateColor", !.color = color]
LoadState(data, with_brightness) ==
    [NoAction EXCEPT !.tag = "LoadState", !.data = data,
                     !.with_brightness = with_brightness]
PersistState == [NoAction EXCEPT !.tag = "PersistState"]
ResetBrightness == [NoAction EXCEPT !.tag = "ResetBrightness"]

\* the state of a keyboard all of whose LEDs show colour rgb
Uniform(rgb, n, effect, speed, brightness) ==
    [chroma |-> [k \in 1..n |-> <<RgbToHsv(rgb).hue, RgbToHsv(rgb).saturation>>],
     value |-> [k \in 1..n |-> RgbToHsv(rgb).value],
     color |-> <<RgbToHsv(rgb).hue, RgbToHsv(rgb).saturation>>,
     brightness |-> brightness, effect |-> effect, speed |-> speed]

\* serde_json::from_str::<KeyboardState>(data): the saved profiles of the model
\* are the document of an all-maroon keyboard and a text that is no document
ParseState(data) ==
    IF data = "profile" THEN [ok |-> TRUE, state |-> Uniform("maroon", LedCount, 1, 1, 128)]
    ELSE [ok |-> FALSE, state |-> Uniform("white", 0, 0, 0, 0)]

\* Keyboard::from_config: the state read back from the keyboard, and the
\* keyboard that reported it
InitialState == Uniform("white", LedCount, 0, 0, 255)

InitialDevice ==
    [chroma |-> InitialState.chroma, value |-> InitialState.value,
     color |-> InitialState.color, brightness |-> InitialState.brightness,
     effect |-> InitialState.effect, speed |-> InitialState.speed,
     saved |-> TRUE]

\* handle_action: the controller operations an action runs, in order; each is
\* awaited before the next starts and a failing one ends the action
HandleAction(a) ==
    IF a.tag = "LoadState"
    THEN LET parsed == ParseState(a.data)
             ps == parsed.state
             n == Min(Len(ps.chroma), Len(ps.value))
         IN  IF ~parsed.ok THEN <<>>
             ELSE << UpdateColors([k \in 1..n |-> HsvToRgb(ps.chroma[k], ps.value[k])],
                                  0, a.with_brightness),
                     UpdateColor(HsvToRgb(ps.color, 255)),
                     UpdateEffect(ps.effect),
                     UpdateSpeed(ps.speed),
                     UpdateBrightness(ps.brightness) >>
    ELSE <<a>>

\* the synchronous part of one controller operation
RunOperation(st, a) ==
    CASE a.tag = "UpdateColors" -> update_colors(st, a.colors, a.offset, a.with_brightness)
      [] a.tag = "UpdateBrightness" -> update_brightness(st, a.value)
      [] a.tag = "UpdateEffect" -> update_effect(st, a.value)
      [] a.tag = "UpdateColor" -> update_color(st, a.color)
      [] a.tag = "UpdateSpeed" -> update_speed(st, a.value)
      [] a.tag = "PersistState" -> persist_state(st)
      [] a.tag = "ResetBrightness" -> reset_brightness(st)

Range(s) == {s[k] : k \in 1..Len(s)}

\* IndexMap::shift_remove(&id): the map without the entry of that variant
ShiftRemove(map, id) ==
    LET keep == {k \in 1..Len(map) : map[k].tag # id}
        Nth(j) == CHOOSE k \in keep : Cardinality({i \in keep : i < k}) = j - 1
    IN  [j \in 1..Cardinality(keep) |-> map[Nth(j)]]

\* the entry shift_remove returns: <<entry>>, or <<>> for None
Entry(map, id) == SelectSeq(map, LAMBDA e : e.tag = id)

\* a map whose insert replaces the entry of a queued variant where it stands
InsertKeepingPlace(map, removed, a) ==
    IF \E k \in 1..Len(map) : map[k].tag = a.tag
    THEN [k \in 1..Len(map) |-> IF map[k].tag = a.tag THEN a ELSE map[k]]
    ELSE Append(map, a)
\* actions.insert(id, action) after the removal: the entry goes to the end
Insert(map, removed, a) == Append(removed, a)

\* a queue in which the queued action of a variant outlives a newer one
CoalesceKeepOld(old, a) ==
    [panicked |-> FALSE, action |-> IF old # <<>> THEN old[1] ELSE a]
\* the action perform_action stores for a new action: merged with a queued
\* UpdateColors, otherwise the new action itself
Coalesce(old, a) ==
    IF old # <<>> /\ a.tag = "UpdateColors"
    THEN LET m == merge_colors(old[1].colors, old[1].offset, a.colors, a.offset)
         IN  [panicked |-> m.panicked,
              action |-> UpdateColors(m.colors, m.offset, a.with_brightness)]
    ELSE [panicked |-> FALSE, action |-> a]

TagsOf(map) == [k \in 1..Len(map) |-> map[k].tag]

TheCall(a) == [colors |-> a.colors, offset |-> a.offset,
               with_brightness |-> a.with_brightness]

\* Keyboard::perform_action.  A poisoned map makes lock().unwrap() panic in
\* the caller; a panic of merge_colors poisons the map after the old entry
\* was removed from it.
PerformAction(a) ==
    /\ handles > 0
    /\ calls_left > 0
    /\ calls_left' = calls_left - 1
    /\ IF poisoned
       THEN UNCHANGED queueVars
       ELSE LET old == Entry(actions, a.tag)
                removed == ShiftRemove(actions, a.tag)
                c == Coalesce(old, a)
            IN  IF c.panicked
                THEN /\ actions' = removed
                     /\ poisoned' = TRUE
                     /\ latest' = [latest EXCEPT ![a.tag] = NoAction]
                     /\ order' = SelectSeq(order, LAMBDA t : t # a.tag)
                     /\ queued_calls' = <<>>
                     /\ UNCHANGED notify_permit
                ELSE /\ actions' = Insert(actions, removed, c.action)
                     /\ notify_permit' = TRUE
                     /\ latest' = [latest EXCEPT ![a.tag] = a]
                     /\ order' = Append(SelectSeq(order, LAMBDA t : t # a.tag), a.tag)
                     /\ queued_calls' = IF a.tag = "UpdateColors"
                                        THEN Append(queued_calls, TheCall(a))
                                        ELSE queued_calls
                     /\ UNCHANGED poisoned
    /\ UNCHANGED <<workerVars, keyboard_lock, state, device, readers, handles>>
    /\ UNCHANGED notActor

\* a task whose upgrade never fails
UpgradeAlways(hs) == "draining"
\* weak_keyboard.upgrade() at the head of a drain iteration: with no handle
\* left outside the task the controller is gone and the task ends
Upgrade(hs) == IF hs = 0 THEN "terminated" ELSE "draining"

\* handler_notify.notify.notified().await, then the upgrade of the first
\* drain iteration
WorkerWake ==
    /\ worker = "waiting"
    /\ notify_permit
    /\ notify_permit' = FALSE
    /\ worker' = Upgrade(handles)
    /\ UNCHANGED <<actions, poisoned, latest, order, queued_calls>>
    /\ UNCHANGED <<action, todo, writes, action_calls, failed, before>>
    /\ UNCHANGED <<keyboard_lock, state, device, readers, calls_left, handles>>
    /\ UNCHANGED notActor

\* a worker that takes the entry inserted last
ShiftRemoveLast(map) == [head |-> map[Len(map)], rest |-> SubSeq(map, 1, Len(map) - 1)]
\* actions.shift_remove_index(0)
ShiftRemoveIndex0(map) == [head |-> Head(map), rest |-> Tail(map)]

\* the drain iteration after its upgrade: the map is locked and its first
\* entry removed; an empty map ends the drain, a poisoned one panics the task
WorkerTake ==
    /\ worker = "draining"
    /\ IF poisoned
       THEN /\ worker' = "panicked"
            /\ UNCHANGED <<queueVars, action, action_calls>>
       ELSE IF actions = <<>>
       THEN /\ worker' = "waiting"
            /\ UNCHANGED <<queueVars, action, action_calls>>
       ELSE LET r == ShiftRemoveIndex0(actions)
            IN  /\ action' = r.head
                /\ actions' = r.rest
                /\ worker' = "locking"
                /\ latest' = [latest EXCEPT ![r.head.tag] = NoAction]
                /\ order' = SelectSeq(order, LAMBDA t : t # r.head.tag)
                /\ queued_calls' = IF r.head.tag = "UpdateColors" THEN <<>> ELSE queued_calls
                /\ action_calls' = IF r.head.tag = "UpdateColors" THEN queued_calls ELSE <<>>
                /\ UNCHANGED <<poisoned, notify_permit>>
    /\ UNCHANGED <<todo, writes, failed, before>>
    /\ UNCHANGED <<keyboard_lock, state, device, readers, calls_left, handles>>
    /\ UNCHANGED notActor

\* a controller without its Mutex
CanLockAlways(holder) == TRUE
\* keyboard.lock().await succeeds when nobody holds the controller
CanLock(holder) == holder.by = "nobody"

\* the holders of the controller's Mutex
Unlocked == [by |-> "nobody", id |-> 0]
ByWorker == [by |-> "worker", id |-> 0]
ByQuery(r) == [by |-> "query", id |-> r]

\* the cache and the keyboard of a controller
Snapshot(st, dev) == [state |-> st, device |-> dev]

\* keyboard.lock().await, then handle_action up to its first await; a
\* LoadState whose text is no document fails there
WorkerBegin ==
    /\ worker = "locking"
    /\ CanLock(keyboard_lock)
    /\ keyboard_lock' = ByWorker
    /\ worker' = "executing"
    /\ todo' = HandleAction(action)
    /\ failed' = (action.tag = "LoadState" /\ ~ParseState(action.data).ok)
    /\ before' = Snapshot(state, device)
    /\ UNCHANGED <<queueVars, action, writes, action_calls>>
    /\ UNCHANGED <<state, device, readers, calls_left, handles>>
    /\ UNCHANGED notActor

\* the next controller operation of the action starts: it returns an error,
\* which ends the action, or updates the cache and issues its writes
WorkerOperation ==
    /\ worker = "executing"
    /\ writes = {}
    /\ todo # <<>>
    /\ LET r == RunOperation(state, Head(todo))
       IN  /\ state' = r.st
           /\ writes' = Range(r.reports)
           /\ todo' = IF r.err THEN <<>> ELSE Tail(todo)
           /\ failed' = r.err
    /\ UNCHANGED <<queueVars, worker, action, action_calls, before>>
    /\ UNCHANGED <<keyboard_lock, device, readers, calls_left, handles>>
    /\ UNCHANGED notActor

\* one of the joined send_report futures completes its write
WorkerWrite ==
    /\ worker = "executing"
    /\ \E r \in writes :
          /\ device' = ApplyReport(device, r)
          /\ writes' = writes \ {r}
    /\ UNCHANGED <<queueVars, worker, action, todo, action_calls, failed, before>>
    /\ UNCHANGED <<keyboard_lock, state, readers, calls_left, handles>>
    /\ UNCHANGED notActor

\* a controller that puts its cache back when a write fails
CacheRolledBack(st, snapshot) == snapshot.state
\* the cache after a failed write: the operation wrote it before it awaited
\* its writes and nothing puts it back
CacheAfterFailure(st, snapshot) == st

\* device.send_report(report) returns an error: the keyboard does not get
\* the report.  try_join_all and `?` end the operation with that error and
\* drop the writes not yet done; reset_brightness joins its writes with
\* join_all and does not look at their results.
WorkerWriteFails ==
    /\ worker = "executing"
    /\ \E r \in writes :
          IF action.tag = "ResetBrightness"
          THEN /\ writes' = writes \ {r}
               /\ UNCHANGED <<todo, failed>>
          ELSE /\ writes' = {}
               /\ todo' = <<>>
               /\ failed' = TRUE
    /\ state' = CacheAfterFailure(state, before)
    /\ UNCHANGED <<queueVars, worker, action, action_calls, before>>
    /\ UNCHANGED <<keyboard_lock, device, readers, calls_left, handles>>
    /\ UNCHANGED notActor

\* a worker that ends its task when handle_action returns an error
AfterActionStops(err, hs) == IF err THEN "terminated" ELSE Upgrade(hs)
\* if let Err(error) = handle_action(..) { warn!(..) }: with or without an
\* error the drain loop goes to its next iteration
AfterAction(err, hs) == Upgrade(hs)

\* handle_action returned: the guard and the upgraded Arc are dropped, the
\* drain loop goes on
WorkerFinish ==
    /\ worker = "executing"
    /\ writes = {}
    /\ todo = <<>>
    /\ keyboard_lock' = Unlocked
    /\ worker' = AfterAction(failed, handles)
    /\ action' = NoAction
    /\ action_calls' = <<>>
    /\ failed' = FALSE
    /\ before' = Snapshot(InitialState, InitialDevice)
    /\ UNCHANGED <<queueVars, todo, writes>>
    /\ UNCHANGED <<state, device, readers, calls_left, handles>>
    /\ UNCHANGED notActor

\* the last Keyboard handle is dropped while no query runs on it: its
\* controller Arc goes first, then its Notifier, whose drop calls notify_one
DropHandle ==
    /\ handles > 0
    /\ \A r \in DOMAIN readers : readers[r] = "idle"
    /\ handles' = handles - 1
    /\ notify_permit' = TRUE
    /\ UNCHANGED <<actions, poisoned, latest, order, queued_calls>>
    /\ UNCHANGED <<workerVars, keyboard_lock, state, device, readers, calls_left>>
    /\ UNCHANGED notActor

\* no step of the actor and no into_config call
notActorRecover == <<chunkVars, mergeVars, channelVars, profileVars, registryVars,
                     serverVars, controllerVars, reportVars, configVars, sendVars,
                     lockVars, frameVars,
    dataVars>>
notData == <<chunkVars, mergeVars, actorVars, channelVars,
    profileVars, registryVars, serverVars, controllerVars, reportVars, configVars, sendVars, lockVars, frameVars, recoverVars>>

RecoverIdle == recovered = "nothing"

\* #[derive(Clone)] on Keyboard: another handle with another strong reference
CloneHandle ==
    /\ handles > 0
    /\ handles < MaxHandles
    /\ handles' = handles + 1
    /\ UNCHANGED <<queueVars, workerVars, keyboard_lock, state, device, readers, calls_left>>
    /\ UNCHANGED notActor

\* the worker's `keyboard` local: the Arc it upgraded at the top of the drain
\* iteration, alive until the iteration ends
WorkerHolds == worker \in {"draining", "locking", "executing"}

\* Arc::strong_count of the controller
StrongCount == handles + (IF WorkerHolds THEN 1 ELSE 0)

\* Arc::try_unwrap(self.keyboard): Ok for the only strong reference
TryUnwrap(strong) == strong = 1

\* into_config(self): try_unwrap(..).unwrap() returns the controller or
\* panics; either way the handle, its Arc and its Notifier are gone
IntoConfig ==
    /\ handles > 0
    /\ recovered = "nothing"
    /\ \A r \in DOMAIN readers : readers[r] = "idle"
    /\ recovered' = IF TryUnwrap(StrongCount) THEN "config" ELSE "panicked"
    /\ handles' = handles - 1
    /\ notify_permit' = TRUE
    /\ UNCHANGED <<actions, poisoned, latest, order, queued_calls>>
    /\ UNCHANGED <<workerVars, keyboard_lock, state, device, readers, calls_left>>
    /\ UNCHANGED notActorRecover

Readers == 1..NumReaders

\* a task calls a read-only query (colors, color, effect, speed, brightness,
\* save_state) ...
QueryCall(r) ==
    /\ handles > 0
    /\ readers[r] = "idle"
    /\ readers' = [readers EXCEPT ![r] = "waiting"]
    /\ UNCHANGED <<queueVars, workerVars, keyboard_lock, state, device, calls_left, handles>>
    /\ UNCHANGED notActor

\* ... self.keyboard.lock().await ...
QueryLock(r) ==
    /\ readers[r] = "waiting"
    /\ CanLock(keyboard_lock)
    /\ keyboard_lock' = ByQuery(r)
    /\ readers' = [readers EXCEPT ![r] = "reading"]
    /\ UNCHANGED <<queueVars, workerVars, state, device, calls_left, handles>>
    /\ UNCHANGED notActor

\* ... reads the cached state and drops the guard
QueryRead(r) ==
    /\ readers[r] = "reading"
    /\ keyboard_lock' = Unlocked
    /\ readers' = [readers EXCEPT ![r] = "idle"]
    /\ UNCHANGED <<queueVars, workerVars, state, device, calls_left, handles>>
    /\ UNCHANGED notActor

\* Keyboard::from_config: an empty map, the worker at notified().await, one
\* handle returned to the caller
ActorInit ==
    /\ actions = <<>>
    /\ poisoned = FALSE
    /\ notify_permit = FALSE
    /\ keyboard_lock = Unlocked
    /\ worker = "waiting"
    /\ action = NoAction
    /\ todo = <<>>
    /\ writes = {}
    /\ state = InitialState
    /\ device = InitialDevice
    /\ readers = [r \in Readers |-> "idle"]
    /\ calls_left = MaxCalls
    /\ latest = [t \in Tags |-> NoAction]
    /\ order = <<>>
    /\ queued_calls = <<>>
    /\ action_calls = <<>>
    /\ failed = FALSE
    /\ before = Snapshot(InitialState, InitialDevice)
    /\ handles = 1

ActorIdle == ActorInit

ActorUnchanged == UNCHANGED actorVars

\* the colour lists clients send: colours only, at least one
Frames == SeqsUpTo(Palette, MaxFrame) \ {<<>>}

\* the actions of the clients of Spec: every variant, two values where the
\* claims compare a newer action with an older one
ClientActions ==
    {UpdateColors(<<"maroon">>, 0, TRUE), UpdateColors(<<"white", "maroon">>, 0, FALSE),
     UpdateEffect(1), UpdateEffect(2), UpdateSpeed(1), UpdateBrightness(128),
     UpdateColor("maroon"), LoadState("profile", TRUE), LoadState("not json", TRUE),
     PersistState, ResetBrightness}

\* the actions of the clients of SpecErrors: an update_colors call past the
\* last LED and one inside the keyboard, two effects, and a profile that is
\* no document
ErrorActions ==
    {UpdateColors(<<"maroon">>, LedCount, TRUE), UpdateColors(<<"maroon">>, 0, TRUE),
     UpdateEffect(1), UpdateEffect(2), LoadState("not json", TRUE)}

\* the actions of the clients of SpecLive: two update_colors calls that
\* merge_colors is given together when both are queued, and an effect
LiveActions ==
    {UpdateColors(<<"maroon">>, 0, TRUE), UpdateColors(<<"white", "maroon">>, 0, FALSE),
     UpdateEffect(1)}

\* the actions of the clients of SpecDrop
DropActions == {UpdateColors(<<"maroon">>, 0, TRUE), UpdateEffect(1)}

\* the actions of the clients of SpecColors: every update_colors call
ColorActions ==
    {UpdateColors(f, off, wb) : f \in Frames, off \in 0..LedCount, wb \in BOOLEAN}

(***************************************************************************)
(* The device channel (src/src/device.rs).  A report is modelled by its    *)
(* first four bytes; the bytes after them play no part in the matching.    *)
(***************************************************************************)
\* mpsc::channel::<(Vec<u8>, FutureReportState)>(32)
MailboxCapacity == 32

Callers == 1..NumCallers

\* the requests of the model: load_effect and load_speed, request_report(report, 3)
RequestKinds ==
    {[report |-> <<8, 3, 2, 0>>, ref_bytes |-> 3],
     [report |-> <<8, 3, 3, 0>>, ref_bytes |-> 3]}

\* the keyboard's answer to a GET report: the request's first three bytes,
\* then the value asked for
Answer(report) == <<report[1], report[2], report[3], report[3] - 1>>

NoReport == <<>>

\* a read_input_report call that returns Err, as it stands in the keyboard's
\* input
ReadError == <<-1>>

\* let mut buffer = [0u8; 32]
ZeroBuffer == <<0, 0, 0, 0>>

\* buffer.starts_with(&x.0)
StartsWith(buffer, prefix) ==
    /\ Len(prefix) <= Len(buffer)
    /\ \A k \in 1..Len(prefix) : buffer[k] = prefix[k]

\* requests.retain(|x| ...): the entries kept, those whose prefix does not
\* start the buffer
Retained(reqs, buffer) ==
    SelectSeq(reqs, LAMBDA x : ~StartsWith(buffer, x.prefix))

\* the callers whose entry the retain closure satisfies
Satisfied(reqs, kept) ==
    {reqs[k].slot : k \in 1..Len(reqs)} \ {kept[k].slot : k \in 1..Len(kept)}

\* KeyboardDevice::from_ids: the reader task is spawned with an empty list
ChannelInit ==
    /\ mailbox = <<>>
    /\ requests = <<>>
    /\ reader = "running"
    /\ slots = [c \in Callers |-> [data |-> NoReport, waker |-> FALSE]]
    /\ callers = [c \in Callers |-> [at |-> "idle", report |-> NoReport, got |-> NoReport]]
    /\ hid_out = <<>>
    /\ hid_in = <<>>

ChannelIdle == ChannelInit

ChannelUnchanged == UNCHANGED channelVars

\* request_report up to its first await completing: the prefix and a fresh
\* slot are sent into the channel, which takes them while it has room
CallerSend(c) ==
    /\ callers[c].at = "idle"
    /\ Len(mailbox) < MailboxCapacity
    /\ \E k \in RequestKinds :
          /\ mailbox' = Append(mailbox, [prefix |-> SubSeq(k.report, 1, k.ref_bytes),
                                         slot |-> c])
          /\ callers' = [callers EXCEPT ![c] = [at |-> "sent", report |-> k.report,
                                                got |-> NoReport]]
    /\ UNCHANGED <<requests, reader, slots, hid_out, hid_in>>
    /\ UNCHANGED notChannel

\* self.send_report(report).await: the request reaches the keyboard
CallerWrite(c) ==
    /\ callers[c].at = "sent"
    /\ hid_out' = Append(hid_out, callers[c].report)
    /\ callers' = [callers EXCEPT ![c].at = "written"]
    /\ UNCHANGED <<mailbox, requests, reader, slots, hid_in>>
    /\ UNCHANGED notChannel

\* FutureReport::poll: ready with the data, or the waker is stored
CallerPoll(c) ==
    /\ callers[c].at \in {"written", "woken"}
    /\ IF slots[c].data # NoReport
       THEN /\ callers' = [callers EXCEPT ![c].at = "done", ![c].got = slots[c].data]
            /\ slots' = [slots EXCEPT ![c].data = NoReport]
       ELSE /\ callers' = [callers EXCEPT ![c].at = "pending"]
            /\ slots' = [slots EXCEPT ![c].waker = TRUE]
    /\ UNCHANGED <<mailbox, requests, reader, hid_out, hid_in>>
    /\ UNCHANGED notChannel

\* the keyboard answers the oldest request it received
KeyboardAnswers ==
    /\ hid_out # <<>>
    /\ hid_in' = Append(hid_in, Answer(Head(hid_out)))
    /\ hid_out' = Tail(hid_out)
    /\ UNCHANGED <<mailbox, requests, reader, slots, callers>>
    /\ UNCHANGED notChannel

\* the select! branch Some(request) = receiver.recv()
ReaderRecv ==
    /\ reader = "running"
    /\ mailbox # <<>>
    /\ requests' = Append(requests, Head(mailbox))
    /\ mailbox' = Tail(mailbox)
    /\ UNCHANGED <<reader, slots, callers, hid_out, hid_in>>
    /\ UNCHANGED notChannel

\* the next read_input_report call on the keyboard returns Err
KeyboardFails ==
    /\ \A k \in 1..Len(hid_in) : hid_in[k] # ReadError
    /\ hid_in' = Append(hid_in, ReadError)
    /\ UNCHANGED <<mailbox, requests, reader, slots, callers, hid_out>>
    /\ UNCHANGED notChannel

\* the select! branch hid.read_input_report(&mut buffer) when the read
\* returns Err: the pattern _ takes the branch all the same, the retain
\* closure runs on the buffer as it was created, and the loop goes on
ReaderReadFails ==
    /\ reader = "running"
    /\ hid_in # <<>>
    /\ Head(hid_in) = ReadError
    /\ LET kept == Retained(requests, ZeroBuffer)
           hit == Satisfied(requests, kept)
       IN  /\ requests' = kept
           /\ slots' = [c \in Callers |->
                           IF c \in hit THEN [data |-> ZeroBuffer, waker |-> FALSE]
                           ELSE slots[c]]
           /\ callers' = [c \in Callers |->
                             IF c \in hit /\ slots[c].waker
                             THEN [callers[c] EXCEPT !.at = "woken"]
                             ELSE callers[c]]
    /\ hid_in' = Tail(hid_in)
    /\ UNCHANGED <<mailbox, reader, hid_out>>
    /\ UNCHANGED notChannel

\* the select! branch hid.read_input_report(&mut buffer): every entry whose
\* prefix starts the buffer gets the buffer, has its waker woken and is removed
ReaderRead ==
    /\ reader = "running"
    /\ hid_in # <<>>
    /\ Head(hid_in) # ReadError
    /\ LET buffer == Head(hid_in)
           kept == Retained(requests, buffer)
           hit == Satisfied(requests, kept)
       IN  /\ requests' = kept
           /\ slots' = [c \in Callers |->
                           IF c \in hit THEN [data |-> buffer, waker |-> FALSE]
                           ELSE slots[c]]
           /\ callers' = [c \in Callers |->
                             IF c \in hit /\ slots[c].waker
                             THEN [callers[c] EXCEPT !.at = "woken"]
                             ELSE callers[c]]
    /\ hid_in' = Tail(hid_in)
    /\ UNCHANGED <<mailbox, reader, hid_out>>
    /\ UNCHANGED notChannel

(***************************************************************************)
(* Profiles: save_state and load_state of the controller                   *)
(* (src/src/keyboard.rs:253-281), called by the SaveProfile and            *)
(* LoadProfile handlers (src/src/handlers.rs:224-237).                     *)
(***************************************************************************)
\* no profile was saved
NoText == <<>>

\* serde_json::to_string(&self.state): the document as its numbers in field
\* order, each list preceded by its length
Serialize(st) ==
    LET n == Len(st.chroma)
        pairs == [k \in 1..(2 * n) |-> st.chroma[(k + 1) \div 2][2 - (k % 2)]]
    IN  <<n>> \o pairs \o <<Len(st.value)>> \o st.value \o st.color
            \o <<st.brightness, st.effect, st.speed>>

\* serde_json::from_str::<KeyboardState>(state)
Deserialize(text) ==
    LET n == text[1]
        m == text[2 * n + 2]
        base == 2 * n + 2 + m
        wellformed == /\ Len(text) >= 1
                      /\ Len(text) >= 2 * n + 2
                      /\ Len(text) = base + 5
    IN  IF ~wellformed THEN [ok |-> FALSE, state |-> Uniform("white", 0, 0, 0, 0)]
        ELSE [ok |-> TRUE,
              state |-> [chroma |-> [k \in 1..n |-> <<text[2 * k], text[2 * k + 1]>>],
                         value |-> [k \in 1..m |-> text[2 * n + 2 + k]],
                         color |-> <<text[base + 1], text[base + 2]>>,
                         brightness |-> text[base + 3],
                         effect |-> text[base + 4],
                         speed |-> text[base + 5]]]

\* Keyboard::save_state
save_state(st) == Serialize(st)

\* the controller operations of a list run one after the other, a failing one
\* ending the run
RECURSIVE RunAll(_, _)
RunAll(st, ops) ==
    IF ops = <<>> THEN NoEffect(st)
    ELSE LET r == RunOperation(st, Head(ops))
         IN  IF r.err THEN r
             ELSE LET rest == RunAll(r.st, Tail(ops))
                  IN  [err |-> rest.err, st |-> rest.st,
                       reports |-> r.reports \o rest.reports]

\* Keyboard::load_state
load_state(st, text, with_brightness) ==
    LET parsed == Deserialize(text)
        ps == parsed.state
        n == Min(Len(ps.chroma), Len(ps.value))
    IN  IF ~parsed.ok THEN Failed(st)
        ELSE RunAll(st,
                 << UpdateColors([k \in 1..n |-> HsvToRgb(ps.chroma[k], ps.value[k])],
                                 0, with_brightness),
                    UpdateColor(HsvToRgb(ps.color, 255)),
                    UpdateEffect(ps.effect),
                    UpdateSpeed(ps.speed),
                    UpdateBrightness(ps.brightness) >>)

\* Keyboard::from_config: the state is what the keyboard reports, any hue,
\* saturation and value bytes per LED (here hue 0, saturation 0 or 255,
\* value 0, 128 or 255)
LoadedStates ==
    {[InitialState EXCEPT !.chroma = c, !.value = b] :
        c \in [1..LedCount -> {<<0, 0>>, <<0, 255>>}],
        b \in [1..LedCount -> {0, 128, 255}]}

ProfileInit ==
    /\ keyboard \in LoadedStates
    /\ profile = NoText
    /\ kb_saved = keyboard
    /\ round = "none"

ProfileIdle ==
    /\ keyboard = InitialState
    /\ profile = NoText
    /\ kb_saved = InitialState
    /\ round = "none"

\* the colours of the requests that reach the controller between profiles
ProfilePalette == {"white", "maroon", "red", "black"}

\* UpdateSingleLed, UpdateMode with another effect or another mode colour
ProfileOperations ==
    {UpdateColors(<<c>>, off, wb) :
        c \in ProfilePalette, off \in 0..(LedCount - 1), wb \in BOOLEAN}
    \cup {UpdateEffect(1), UpdateColor("maroon")}

\* a request that changes the controller's state
ProfileUpdate(a) ==
    /\ keyboard' = RunOperation(keyboard, a).st
    /\ round' = "none"
    /\ UNCHANGED <<profile, kb_saved>>
    /\ UNCHANGED notProfile

\* SaveProfile: keyboard.save_state() written to the profile's file
ProfileSave ==
    /\ profile' = save_state(keyboard)
    /\ kb_saved' = keyboard
    /\ round' = "saved"
    /\ UNCHANGED keyboard
    /\ UNCHANGED notProfile

\* LoadProfile: the file's text handed to keyboard.load_state
ProfileLoad(with_brightness) ==
    /\ profile # NoText
    /\ keyboard' = load_state(keyboard, profile, with_brightness).st
    /\ round' = IF round = "saved" /\ with_brightness THEN "loaded" ELSE "none"
    /\ UNCHANGED <<profile, kb_saved>>
    /\ UNCHANGED notProfile

(***************************************************************************)
(* The controller called directly, as the request handlers call it on the  *)
(* locked keyboard (src/src/handlers.rs:164-212).                          *)
(***************************************************************************)
\* the calls of the model: update_colors with every colour list at every
\* offset with both flags, and each of update_effect, update_speed,
\* update_brightness and update_color with the value a keyboard starts with
\* and with another one
ControllerOperations ==
    {UpdateColors(f, off, wb) : f \in Frames, off \in 0..LedCount, wb \in BOOLEAN}
    \cup {UpdateEffect(0), UpdateEffect(1), UpdateSpeed(0), UpdateSpeed(1),
          UpdateBrightness(255), UpdateBrightness(128),
          UpdateColor("white"), UpdateColor("maroon")}

ControllerInit ==
    /\ controller \in LoadedStates
    /\ operation = NoAction
    /\ emitted = <<>>
    /\ calls_made = 0

ControllerIdle ==
    /\ controller = InitialState
    /\ operation = NoAction
    /\ emitted = <<>>
    /\ calls_made = 0

\* one call of a controller operation; the second call repeats the first
ControllerCall(a) ==
    /\ calls_made < 2
    /\ calls_made = 1 => a = operation
    /\ LET r == RunOperation(controller, a)
       IN  /\ controller' = r.st
           /\ emitted' = r.reports
    /\ operation' = a
    /\ calls_made' = calls_made + 1
    /\ UNCHANGED notController

(***************************************************************************)
(* Report<N> (src/src/report.rs): a byte array whose first byte is the     *)
(* report ID, indexed past that byte.  The index arithmetic is usize       *)
(* arithmetic: a sum past usize::MAX panics in a build with overflow       *)
(* checks and wraps in a build without them.                               *)
(***************************************************************************)
\* the result of an operation that panicked
Panic == -1

\* a + b in usize
AddUsize(a, b, checks) ==
    IF a = Panic \/ b = Panic THEN Panic
    ELSE IF a + b > MaxUsize THEN (IF checks THEN Panic ELSE (a + b) % (MaxUsize + 1))
    ELSE a + b

\* Report::len
ReportLength(n) == n - 1

\* std::ops::Bound
Included(n) == [kind |-> "Included", at |-> n]
Excluded(n) == [kind |-> "Excluded", at |-> n]
Unbounded == [kind |-> "Unbounded", at |-> 0]

\* the range types with ReportRange: a..b, a..=b, a.., ..b, ..=b and ..
RangeOf(start, end) == [start |-> start, end |-> end]

\* Report::adjust_range: (start + 1, end + 1)
AdjustRange(n, range, checks) ==
    LET start == CASE range.start.kind = "Included" -> range.start.at
                   [] range.start.kind = "Excluded" -> AddUsize(range.start.at, 1, checks)
                   [] range.start.kind = "Unbounded" -> 0
        end == CASE range.end.kind = "Included" -> AddUsize(range.end.at, 1, checks)
                 [] range.end.kind = "Excluded" -> range.end.at
                 [] range.end.kind = "Unbounded" -> ReportLength(n)
    IN  <<AddUsize(start, 1, checks), AddUsize(end, 1, checks)>>

\* &self.data[index + 1]: the 0-based position in data, or Panic
IndexPosition(n, index, checks) ==
    LET at == AddUsize(index, 1, checks)
    IN  IF at = Panic \/ at >= n THEN Panic ELSE at

\* &self.data[start..end]: the 0-based positions in data, or Panic
RangePositions(n, range, checks) ==
    LET r == AdjustRange(n, range, checks)
    IN  IF r[1] = Panic \/ r[2] = Panic \/ r[1] > r[2] \/ r[2] > n
        THEN <<Panic>>
        ELSE [k \in 1..(r[2] - r[1]) |-> r[1] + k - 1]

\* an access and what it returned: the positions of data it addressed, the
\* bytes read there before a write, whether it panicked
Access(kind, index, range, byte, positions, bytes, panicked) ==
    [kind |-> kind, index |-> index, range |-> range, byte |-> byte,
     positions |-> positions, bytes |-> bytes, panicked |-> panicked]

NoAccess == Access("none", 0, RangeOf(Unbounded, Unbounded), 0, <<>>, <<>>, FALSE)

\* the indices of the model: every index of a Report of the largest size,
\* one past it, and the two largest values of usize
Indices == 0..MaxReport \cup {MaxUsize - 1, MaxUsize}

\* every range of the six range types over those indices
Ranges ==
    {RangeOf(Included(a), Excluded(b)) : a \in Indices, b \in Indices}
    \cup {RangeOf(Included(a), Included(b)) : a \in Indices, b \in Indices}
    \cup {RangeOf(Included(a), Unbounded) : a \in Indices}
    \cup {RangeOf(Unbounded, Excluded(b)) : b \in Indices}
    \cup {RangeOf(Unbounded, Included(b)) : b \in Indices}
    \cup {RangeOf(Unbounded, Unbounded)}

\* Report::new(): N zero bytes, for every N from 2 up
ReportInit ==
    /\ raw \in {[k \in 1..n |-> 0] : n \in 2..MaxReport}
    /\ overflow_checks \in BOOLEAN
    /\ accessed = NoAccess
    /\ accesses_left = MaxAccesses

ReportIdle ==
    /\ raw = <<0, 0>>
    /\ overflow_checks = TRUE
    /\ accessed = NoAccess
    /\ accesses_left = MaxAccesses

\* report[index] = byte; a panic ends the accesses
ReportIndexMut(index, byte) ==
    /\ accesses_left > 0
    /\ ~accessed.panicked
    /\ accesses_left' = accesses_left - 1
    /\ LET at == IndexPosition(Len(raw), index, overflow_checks)
       IN  IF at = Panic
           THEN /\ accessed' = Access("index_mut", index, RangeOf(Unbounded, Unbounded),
                                      byte, <<>>, <<>>, TRUE)
                /\ UNCHANGED raw
           ELSE /\ accessed' = Access("index_mut", index, RangeOf(Unbounded, Unbounded),
                                      byte, <<at>>, <<raw[at + 1]>>, FALSE)
                /\ raw' = [raw EXCEPT ![at + 1] = byte]
    /\ UNCHANGED overflow_checks
    /\ UNCHANGED notReport

\* report[index]
ReportIndex(index) ==
    /\ accesses_left > 0
    /\ ~accessed.panicked
    /\ accesses_left' = accesses_left - 1
    /\ LET at == IndexPosition(Len(raw), index, overflow_checks)
       IN  IF at = Panic
           THEN accessed' = Access("index", index, RangeOf(Unbounded, Unbounded),
                                   0, <<>>, <<>>, TRUE)
           ELSE accessed' = Access("index", index, RangeOf(Unbounded, Unbounded),
                                   0, <<at>>, <<raw[at + 1]>>, FALSE)
    /\ UNCHANGED <<raw, overflow_checks>>
    /\ UNCHANGED notReport

\* report[range].fill(byte)
ReportRangeMut(range, byte) ==
    /\ accesses_left > 0
    /\ ~accessed.panicked
    /\ accesses_left' = accesses_left - 1
    /\ LET at == RangePositions(Len(raw), range, overflow_checks)
       IN  IF at = <<Panic>>
           THEN /\ accessed' = Access("range_mut", 0, range, byte, <<>>, <<>>, TRUE)
                /\ UNCHANGED raw
           ELSE /\ accessed' = Access("range_mut", 0, range, byte, at,
                                      [k \in 1..Len(at) |-> raw[at[k] + 1]], FALSE)
                /\ raw' = [k \in 1..Len(raw) |->
                              IF \E j \in 1..Len(at) : at[j] + 1 = k THEN byte ELSE raw[k]]
    /\ UNCHANGED overflow_checks
    /\ UNCHANGED notReport

(***************************************************************************)
(* The registry (src/src/keyboards.rs).                                    *)
(***************************************************************************)
QMK_USAGE_PAGE == 65376
QMK_USAGE_ID == 97
MODE_FLAG_HAS_PER_LED_COLOR == 32
MODE_FLAG_HAS_MODE_SPECIFIC_COLOR == 64

\* the effects of a Config: (name, id, flags)
Effect(name, id, flags) == [name |-> name, id |-> id, flags |-> flags]

\* the configs the server was started with: keyboard "A" has two per-LED
\* effects after a mode-colour one, keyboard "B" has no per-LED effect
ConfigA ==
    [vendor_product |-> "A",
     effects |-> << Effect("Solid", 1, MODE_FLAG_HAS_MODE_SPECIFIC_COLOR),
                    Effect("Direct", 2, MODE_FLAG_HAS_PER_LED_COLOR),
                    Effect("Reactive", 3, MODE_FLAG_HAS_PER_LED_COLOR + 1) >>]
ConfigB ==
    [vendor_product |-> "B",
     effects |-> << Effect("Solid", 1, MODE_FLAG_HAS_MODE_SPECIFIC_COLOR) >>]
StartConfigs == {ConfigA, ConfigB}

\* the HID devices of the host: the raw-HID interface of keyboard A and its
\* boot-keyboard interface, the raw-HID interface of keyboard B, and the
\* raw-HID interface of a keyboard no config was given for
HidDevice(id, vendor_product, usage_page, usage_id) ==
    [id |-> id, vendor_product |-> vendor_product,
     usage_page |-> usage_page, usage_id |-> usage_id]
HidDevices ==
    {HidDevice(1, "A", QMK_USAGE_PAGE, QMK_USAGE_ID),
     HidDevice(2, "A", 1, 6),
     HidDevice(3, "B", QMK_USAGE_PAGE, QMK_USAGE_ID),
     HidDevice(4, "C", QMK_USAGE_PAGE, QMK_USAGE_ID)}
DeviceIds == {d.id : d \in HidDevices}
DeviceOf(id) == CHOOSE d \in HidDevices : d.id = id

\* configs.remove(&(vendor_id, product_id)): <<config>>, or <<>> for None
PendingConfig(cfgs, key) ==
    IF \E c \in cfgs : c.vendor_product = key
    THEN << CHOOSE c \in cfgs : c.vendor_product = key >>
    ELSE <<>>
RemoveConfig(cfgs, key) == {c \in cfgs : c.vendor_product # key}

\* a registry that forgets the config of a disconnected keyboard
InsertConfigDropped(cfgs, config) == cfgs
\* configs.insert((config.vendor_id, config.product_id), config)
InsertConfig(cfgs, config) ==
    RemoveConfig(cfgs, config.vendor_product) \cup {config}

\* a Keyboard of the registry: its DeviceId and the Config it was built from
Registered(id, config) == [id |-> id, config |-> config]

\* a device map that puts a new keyboard first
MapInsertFirst(map, id, kbd) == <<kbd>> \o map
\* IndexMap::insert: the value of a known key is replaced where it stands, a
\* new key goes to the end
MapInsert(map, id, kbd) ==
    IF \E k \in 1..Len(map) : map[k].id = id
    THEN [k \in 1..Len(map) |-> IF map[k].id = id THEN kbd ELSE map[k]]
    ELSE Append(map, kbd)

\* IndexMap::shift_remove(&id): the map without that key, the rest in order
MapShiftRemove(map, id) == SelectSeq(map, LAMBDA e : e.id # id)
MapHas(map, id) == \E k \in 1..Len(map) : map[k].id = id
MapGet(map, id) == map[CHOOSE k \in 1..Len(map) : map[k].id = id]

\* a dispatcher that answers with the number of configs it was started with
ConfiguredCount(map) == Cardinality(StartConfigs)
\* GetControllerCount: keyboards.len()
ControllerCount(map) == Len(map)

\* the selection of from_configs
IsQmkDevice(d) == d.usage_id = QMK_USAGE_ID /\ d.usage_page = QMK_USAGE_PAGE
\* a watcher that applies the selection of from_configs to hotplugged devices
HotplugSelectsQmk(d) == IsQmkDevice(d)
\* the selection of the watcher: any device the id resolves to
HotplugSelects(d) == TRUE

\* a watcher that broadcasts after every event
NotifiedAlways(n, changed) == n + 1
\* _ = notifier.send(()), in the branches that changed the map
Notified(n, changed) == IF changed THEN n + 1 ELSE n

NoEvent == [kind |-> "none", id |-> 0, changed |-> FALSE]
Event(kind, id, changed) == [kind |-> kind, id |-> id, changed |-> changed]

\* the state Keyboards::from_configs starts from: the devices attached when
\* the server starts are still to be enumerated
RegistryInit ==
    /\ keyboards = <<>>
    /\ configs = StartConfigs
    /\ sender = 0
    /\ attached \in SUBSET DeviceIds
    /\ enumerating = attached
    /\ events_left = MaxEvents
    /\ event = NoEvent
    /\ count_reply = 0

RegistryIdle ==
    /\ keyboards = <<>>
    /\ configs = StartConfigs
    /\ sender = 0
    /\ attached = {}
    /\ enumerating = {}
    /\ events_left = MaxEvents
    /\ event = NoEvent
    /\ count_reply = 0

\* one turn of the loop of from_configs, on the next device of the
\* enumeration stream; Keyboard::from_config succeeds or fails
Enumerate(id, init_ok) ==
    /\ id \in enumerating
    /\ enumerating' = enumerating \ {id}
    /\ LET d == DeviceOf(id)
           config == PendingConfig(configs, d.vendor_product)
       IN  IF IsQmkDevice(d) /\ config # <<>>
           THEN /\ configs' = RemoveConfig(configs, d.vendor_product)
                /\ keyboards' = IF init_ok
                                THEN MapInsert(keyboards, id, Registered(id, config[1]))
                                ELSE keyboards
                /\ event' = Event("Enumerated", id, init_ok)
           ELSE /\ UNCHANGED <<configs, keyboards>>
                /\ event' = Event("Enumerated", id, FALSE)
    /\ UNCHANGED <<sender, attached, events_left, count_reply>>
    /\ UNCHANGED notRegistry

\* the watcher handles DeviceEvent::Connected(id); query_devices finds the
\* device or not, Keyboard::from_config succeeds or fails
Connected(id, found, init_ok) ==
    /\ enumerating = {}
    /\ events_left > 0
    /\ id \notin attached
    /\ events_left' = events_left - 1
    /\ attached' = attached \cup {id}
    /\ LET d == DeviceOf(id)
           config == IF found /\ HotplugSelects(d)
                     THEN PendingConfig(configs, d.vendor_product) ELSE <<>>
       IN  /\ configs' = IF config # <<>>
                         THEN RemoveConfig(configs, d.vendor_product) ELSE configs
           /\ IF config # <<>> /\ init_ok
              THEN /\ keyboards' = MapInsert(keyboards, id, Registered(id, config[1]))
                   /\ sender' = Notified(sender, TRUE)
                   /\ event' = Event("Connected", id, TRUE)
              ELSE /\ keyboards' = keyboards
                   /\ sender' = Notified(sender, FALSE)
                   /\ event' = Event("Connected", id, FALSE)
    /\ UNCHANGED <<enumerating, count_reply>>
    /\ UNCHANGED notRegistry

\* the watcher handles DeviceEvent::Disconnected(id)
Disconnected(id) ==
    /\ enumerating = {}
    /\ events_left > 0
    /\ id \in attached
    /\ events_left' = events_left - 1
    /\ attached' = attached \ {id}
    /\ IF MapHas(keyboards, id)
       THEN /\ keyboards' = MapShiftRemove(keyboards, id)
            /\ configs' = InsertConfig(configs, MapGet(keyboards, id).config)
            /\ sender' = Notified(sender, TRUE)
            /\ event' = Event("Disconnected", id, TRUE)
       ELSE /\ UNCHANGED <<keyboards, configs>>
            /\ sender' = Notified(sender, FALSE)
            /\ event' = Event("Disconnected", id, FALSE)
    /\ UNCHANGED <<enumerating, count_reply>>
    /\ UNCHANGED notRegistry

\* a client's GetControllerCount request is handled
GetControllerCount ==
    /\ enumerating = {}
    /\ count_reply' = ControllerCount(keyboards)
    /\ event' = Event("GetControllerCount", 0, FALSE)
    /\ UNCHANGED <<keyboards, configs, sender, attached, enumerating, events_left>>
    /\ UNCHANGED notRegistry

(***************************************************************************)
(* A client connection: handle_connection and handle_request               *)
(* (src/src/main.rs:135-345), handle (src/src/handlers.rs:27-275) and      *)
(* write_response (src/src/utils.rs:118-125).                              *)
(***************************************************************************)
\* "ORGB" read as a little-endian u32
Magic == 1111970383

\* Request (src/src/consts.rs:3-21)
GetControllerCountId == 0
GetProtocolVersionId == 40
SetClientNameId == 50
SetCustomModeId == 1100
UpdateModeId == 1101
SaveModeId == 1102
QMK_CUSTOM_SET_COMMAND == 7
QMK_RGB_MATRIX_CHANNEL == 3
QMK_COMMAND_EFFECT == 2
QMK_COMMAND_BRIGHTNESS == 1
QMK_COMMAND_SPEED == 3
QMK_COMMAND_COLOR == 4
\* the save opcode of the keyboard's custom-value protocol
QMK_CUSTOM_SAVE_COMMAND == 9

OPENRGB_PROTOCOL_VERSION == 4

\* u32::to_le_bytes
ToLeBytes(n) ==
    <<n % 256, (n \div 256) % 256, (n \div 65536) % 256, (n \div 16777216) % 256>>

\* a response whose length field counts the header too
WriteResponseWholeLength(kind, data) ==
    <<79, 82, 71, 66>> \o ToLeBytes(0) \o ToLeBytes(kind)
        \o ToLeBytes(Len(data) + 16) \o data
\* StreamExt::write_response: b"ORGB", 0, kind, data.len(), data
WriteResponse(kind, data) ==
    <<79, 82, 71, 66>> \o ToLeBytes(0) \o ToLeBytes(kind)
        \o ToLeBytes(Len(data)) \o data

\* a request as the client writes it: header words, then the payload
Req(magic, index, kind, payload) ==
    [magic |-> magic, device |-> index, kind |-> kind,
     length |-> Len(payload) * (IF kind = SetClientNameId THEN 1 ELSE 4),
     payload |-> payload]

\* the requests of the model: a right and a wrong magic, every device index
\* up to MaxDevices, GetProtocolVersion from a version 3 and a version 4
\* client, GetControllerCount, SetClientName("cl"), SetCustomMode and a
\* request id the server does not know
Requests ==
    {Req(m, d, k.kind, k.payload) :
        m \in {Magic, Magic - 1},
        d \in 0..MaxDevices,
        k \in {[kind |-> GetProtocolVersionId, payload |-> <<3>>],
               [kind |-> GetProtocolVersionId, payload |-> <<4>>],
               [kind |-> GetControllerCountId, payload |-> <<>>],
               [kind |-> SetClientNameId, payload |-> <<99, 108, 0>>],
               [kind |-> SetCustomModeId, payload |-> <<>>],
               [kind |-> 9999, payload |-> <<>>]}}

\* a connection that accepts any magic
MagicAccepted(magic) == TRUE
\* magic != 1111970383 ends the connection
MagicValid(magic) == magic = Magic

\* flags & flag != 0, for a flag of one bit
HasFlag(flags, flag) == (flags \div flag) % 2 = 1

\* a handler that picks the last per-LED effect
LastPerLedEffect(effects) ==
    LET hits == {k \in 1..Len(effects) :
                    HasFlag(effects[k].flags, MODE_FLAG_HAS_PER_LED_COLOR)}
    IN  IF hits = {} THEN <<>>
        ELSE << effects[CHOOSE k \in hits : \A j \in hits : j <= k].id % 256 >>
\* effects.iter().find(|x| x.2 & MODE_FLAG_HAS_PER_LED_COLOR != 0).map(|x| x.1 as u8):
\* <<effect>>, or <<>> for None
FirstPerLedEffect(effects) ==
    LET hits == {k \in 1..Len(effects) :
                    HasFlag(effects[k].flags, MODE_FLAG_HAS_PER_LED_COLOR)}
    IN  IF hits = {} THEN <<>>
        ELSE << effects[CHOOSE k \in hits : \A j \in hits : k <= j].id % 256 >>

\* the first bytes of the report update_effect writes
EffectReport(effect) ==
    <<QMK_CUSTOM_SET_COMMAND, QMK_RGB_MATRIX_CHANNEL, QMK_COMMAND_EFFECT, effect>>

\* a registered keyboard: its Config and its controller's KeyboardState
Controller(config, effect) ==
    [config |-> config, state |-> [InitialState EXCEPT !.effect = effect]]

\* what a handler did: whether it returned Ok, the error if not, the bytes it
\* wrote, the controllers and the client name it left, the HID reports it
\* wrote and the words it read from the stream after the request id
Outcome(ok, error, written, ds, reports, name, words) ==
    [ok |-> ok, error |-> error, written |-> written, devices |-> ds,
     reports |-> reports, client |-> name, words |-> words]

\* the first bytes of the report a controller operation writes for one value
Encode(r) ==
    CASE r.cmd = "EFFECT" -> EffectReport(r.data[1])
      [] r.cmd = "SPEED" ->
             <<QMK_CUSTOM_SET_COMMAND, QMK_RGB_MATRIX_CHANNEL, QMK_COMMAND_SPEED, r.data[1]>>
      [] r.cmd = "BRIGHTNESS" ->
             <<QMK_CUSTOM_SET_COMMAND, QMK_RGB_MATRIX_CHANNEL, QMK_COMMAND_BRIGHTNESS,
               r.data[1]>>
      [] r.cmd = "COLOR" ->
             <<QMK_CUSTOM_SET_COMMAND, QMK_RGB_MATRIX_CHANNEL, QMK_COMMAND_COLOR>> \o r.data
      [] r.cmd = "SAVE" -> <<QMK_CUSTOM_SAVE_COMMAND, QMK_RGB_MATRIX_CHANNEL>>

\* read_rgb on the colours of the model
ReadRgb(bytes) ==
    CASE bytes = <<255, 255, 255>> -> "white"
      [] bytes = <<128, 0, 0>> -> "maroon"

\* the mode description of UpdateMode and SaveMode as the handler reads it:
\* the effect, the speed, the brightness, the number of colours and the
\* first colour (the name and the fields the handler skips are left out)
ModeData(effect, speed, brightness, colors) ==
    <<effect, speed, brightness, Len(colors)>> \o
        (IF colors = <<>> THEN <<0, 0, 0>> ELSE colors[1])

\* a handler that persists before it updates
ModeOperationsSaveFirst(data, save) ==
    (IF save THEN <<PersistState>> ELSE <<>>)
    \o <<UpdateEffect(data[1] % 256), UpdateSpeed(data[2] % 256),
         UpdateBrightness(data[3] % 256)>>
    \o (IF data[4] > 0 THEN <<UpdateColor(ReadRgb(SubSeq(data, 5, 7)))>> ELSE <<>>)
\* the controller operations of the UpdateMode | SaveMode arm, in the order
\* in which they are awaited; effect, speed and brightness are cast to u8
ModeOperations(data, save) ==
    <<UpdateEffect(data[1] % 256), UpdateSpeed(data[2] % 256),
      UpdateBrightness(data[3] % 256)>>
    \o (IF data[4] > 0 THEN <<UpdateColor(ReadRgb(SubSeq(data, 5, 7)))>> ELSE <<>>)
    \o (IF save THEN <<PersistState>> ELSE <<>>)

\* the UpdateMode | SaveMode arm on the keyboard at index device
\* what the arm returns after its operations ran with result r: Ok, or the
\* error of the operation that failed
ModeOutcome(r, req, ds, name) ==
    Outcome(~r.err, IF r.err THEN "send_report" ELSE "", <<>>,
            [ds EXCEPT ![req.device + 1].state = r.st],
            [k \in 1..Len(r.reports) |->
                [device |-> req.device, report |-> Encode(r.reports[k])]],
            name, 1 + Len(req.payload))

UpdateMode(req, ds, name, save) ==
    ModeOutcome(RunAll(ds[req.device + 1].state, ModeOperations(req.payload, save)),
                req, ds, name)

\* the SetCustomMode arm of both handlers, on the keyboard at index device
SetCustomMode(req, ds, name) ==
    LET kbd == ds[req.device + 1]
        effect == FirstPerLedEffect(kbd.config.effects)
        r == IF effect = <<>> THEN NoEffect(kbd.state)
             ELSE update_effect(kbd.state, effect[1])
    IN  Outcome(TRUE, "", <<>>,
                [ds EXCEPT ![req.device + 1].state = r.st],
                [k \in 1..Len(r.reports) |->
                    [device |-> req.device, report |-> EffectReport(r.reports[k].data[1])]],
                name, 1)

\* handle (src/src/handlers.rs): the three requests that need no keyboard are
\* answered before device is looked up
handle(req, ds, name) ==
    CASE req.kind = GetProtocolVersionId ->
             Outcome(TRUE, "", WriteResponse(req.kind, ToLeBytes(OPENRGB_PROTOCOL_VERSION)),
                     ds, <<>>, name, 2)
      [] req.kind = GetControllerCountId ->
             Outcome(TRUE, "", WriteResponse(req.kind, ToLeBytes(Len(ds))),
                     ds, <<>>, name, 1)
      [] req.kind = SetClientNameId ->
             Outcome(TRUE, "", <<>>, ds, <<>>, req.payload, 2)
      [] OTHER ->
             IF req.device >= Len(ds)
             THEN Outcome(FALSE, "Unknown device!", <<>>, ds, <<>>, name, 1)
             ELSE IF req.kind = SetCustomModeId
             THEN SetCustomMode(req, ds, name)
             ELSE IF req.kind \in {UpdateModeId, SaveModeId}
             THEN UpdateMode(req, ds, name, req.kind = SaveModeId)
             ELSE Outcome(FALSE, "Unknown request id!", <<>>, ds, <<>>, name, 1)

\* handle_request (src/src/main.rs): device is looked up before the request
\* id is matched; it has an arm for UpdateMode and none for SaveMode
handle_request(req, ds, name) ==
    IF req.device >= Len(ds)
    THEN Outcome(FALSE, "Unknown device!", <<>>, ds, <<>>, name, 1)
    ELSE CASE req.kind = GetControllerCountId ->
                  Outcome(TRUE, "", WriteResponse(req.kind, ToLeBytes(Len(ds))),
                          ds, <<>>, name, 1)
           [] req.kind = GetProtocolVersionId ->
                  Outcome(TRUE, "",
                          WriteResponse(req.kind, ToLeBytes(OPENRGB_PROTOCOL_VERSION)),
                          ds, <<>>, name, 2)
           [] req.kind = SetClientNameId ->
                  Outcome(TRUE, "", <<>>, ds, <<>>, req.payload, 2)
           [] req.kind = SetCustomModeId -> SetCustomMode(req, ds, name)
           [] req.kind = UpdateModeId -> UpdateMode(req, ds, name, FALSE)
           [] OTHER ->
                  Outcome(FALSE, "Unknown request id!", <<>>, ds, <<>>, name, 1)

Dispatch(by, req, ds, name) ==
    IF by = "handle" THEN handle(req, ds, name) ELSE handle_request(req, ds, name)

\* what the server did with a request: the request, the words it read of it,
\* whether a handler ran and whether it returned Ok
NothingServed ==
    [request |-> Req(Magic, 0, GetControllerCountId, <<>>), words |-> 0,
     ran |-> FALSE, ok |-> FALSE]

\* the keyboards a connection can find registered: each with one of the
\* configs, showing effect 1 or effect 2
Controllers == {Controller(c, e) : c \in StartConfigs, e \in {1, 2}}

\* a connection is accepted.  The server of main.rs does not start without a
\* keyboard; the registry served by handle may be empty
ServerInit ==
    /\ dispatcher \in {"handle", "handle_request"}
    /\ devices \in SeqsUpTo(Controllers, MaxDevices)
    /\ dispatcher = "handle_request" => devices # <<>>
    /\ connection = "open"
    /\ failure = ""
    /\ responses = <<>>
    /\ sent_reports = <<>>
    /\ client = <<>>
    /\ requests_left = MaxRequests
    /\ served = NothingServed

\* the mode descriptions of the model: one that changes every value (the
\* speed 257 is cast to 1), one that names the values a keyboard starts
\* with, one without a colour
ModeDatas ==
    {ModeData(2, 257, 128, << <<128, 0, 0>> >>),
     ModeData(1, 0, 255, << <<255, 255, 255>> >>),
     ModeData(2, 0, 128, <<>>)}

\* UpdateMode and SaveMode requests for every device index up to MaxDevices
ModeRequests ==
    {Req(Magic, d, k, data) :
        d \in 0..MaxDevices, k \in {UpdateModeId, SaveModeId}, data \in ModeDatas}

\* a connection to a server with one keyboard
ModeInit ==
    /\ dispatcher \in {"handle", "handle_request"}
    /\ devices \in [1..1 -> Controllers]
    /\ connection = "open"
    /\ failure = ""
    /\ responses = <<>>
    /\ sent_reports = <<>>
    /\ client = <<>>
    /\ requests_left = MaxRequests
    /\ served = NothingServed

ServerIdle ==
    /\ dispatcher = "handle"
    /\ devices = <<>>
    /\ connection = "open"
    /\ failure = ""
    /\ responses = <<>>
    /\ sent_reports = <<>>
    /\ client = <<>>
    /\ requests_left = MaxRequests
    /\ served = NothingServed

\* the handler returned out: its responses and reports are written, an
\* error closes the connection
Returned(req, out) ==
    /\ connection' = IF out.ok THEN "open" ELSE "closed"
    /\ failure' = out.error
    /\ served' = [request |-> req, words |-> 3 + out.words, ran |-> TRUE, ok |-> out.ok]
    /\ devices' = out.devices
    /\ responses' = responses \o out.written
    /\ sent_reports' = sent_reports \o out.reports
    /\ client' = out.client

\* one turn of the loop of handle_connection on the client's next request
HandleConnection(req) ==
    /\ connection = "open"
    /\ requests_left > 0
    /\ requests_left' = requests_left - 1
    /\ UNCHANGED dispatcher
    /\ IF ~MagicValid(req.magic)
       THEN /\ connection' = "closed"
            /\ failure' = "Invalid packet header!"
            /\ served' = [request |-> req, words |-> 1, ran |-> FALSE, ok |-> FALSE]
            /\ UNCHANGED <<devices, responses, sent_reports, client>>
       ELSE Returned(req, Dispatch(dispatcher, req, devices, client))
    /\ UNCHANGED notServer

(***************************************************************************)
(* Config::from_str and Config::count_leds (src/src/config.rs).  The JSON  *)
(* is modelled after deserialisation: the keymap as its keys, the menus as *)
(* the controls and the effects dropdown found in them.                    *)
(***************************************************************************)
MODE_FLAG_HAS_SPEED == 1
MODE_FLAG_HAS_BRIGHTNESS == 16
MODE_FLAG_HAS_RANDOM_COLOR == 128

\* Option<(u8, (u8, u8))>
NoLed == [some |-> FALSE, led |-> 0, row |-> 0, col |-> 0]
SomeLed(led, row, col) == [some |-> TRUE, led |-> led, row |-> row, col |-> col]

\* a key of the keymap: its position, the LED of its "l<N>" line (absent:
\* -1) and whether its encoder line starts with "e"
Key(row, col, led, encoder) == [row |-> row, col |-> col, led |-> led, encoder |-> encoder]

\* extract_led: None for a key without a LED line and for an encoder key
extract_led(entry) ==
    IF entry.led < 0 \/ entry.encoder THEN NoLed
    ELSE SomeLed(entry.led, entry.row, entry.col)

\* the derived Ord of Option<(u8, (u8, u8))>: None first, then the tuples
\* in lexicographic order
LedLessEq(a, b) ==
    IF ~a.some THEN TRUE
    ELSE IF ~b.some THEN FALSE
    ELSE IF a.led # b.led THEN a.led < b.led
    ELSE IF a.row # b.row THEN a.row < b.row
    ELSE a.col <= b.col

\* Iterator::max: <<>> for an empty iterator, else the last greatest element
RECURSIVE IterMax(_)
IterMax(entries) ==
    IF entries = <<>> THEN <<>>
    ELSE LET rest == IterMax(Tail(entries))
         IN  IF rest = <<>> THEN <<Head(entries)>>
             ELSE IF LedLessEq(Head(entries), rest[1]) THEN rest ELSE <<Head(entries)>>

\* a count of the entries instead of the greatest index
count_leds_by_length(entries) == Len(entries)
\* Config::count_leds
count_leds(entries) ==
    LET index == IF IterMax(entries) = <<>> THEN NoLed ELSE IterMax(entries)[1]
    IN  IF index.some THEN index.led + 1 ELSE 0

\* a showIf: absent, "{id_qmk_rgb_matrix_effect} == n", "... != n", a text
\* build_operator_tree rejects, a text that does not evaluate to a boolean
ShowIf(kind, n) == [kind |-> kind, n |-> n]
ShowIfs == {ShowIf("absent", 0), ShowIf("equals", 1), ShowIf("differs", 0),
            ShowIf("unparsable", 0), ShowIf("not boolean", 0)}

\* Control { control_type, show_if }
Control(control_type, show_if) == [control_type |-> control_type, show_if |-> show_if]
ControlTypes == {"Brightness", "Speed", "Color", "ColorPalette"}
Controls == {Control(t, c) : t \in ControlTypes, c \in ShowIfs}

\* is_active of a control for an effect id; a predicate that does not
\* parse skips the control, one that does not evaluate counts as false
IsActive(show_if, effect_id) ==
    CASE show_if.kind = "absent" -> TRUE
      [] show_if.kind = "equals" -> effect_id = show_if.n
      [] show_if.kind = "differs" -> effect_id # show_if.n
      [] show_if.kind = "unparsable" -> FALSE
      [] show_if.kind = "not boolean" -> FALSE

\* color_type after the loop over the controls: the flag of the last
\* active colour control, 0 for None
RECURSIVE ColorType(_, _)
ColorType(cs, effect_id) ==
    IF cs = <<>> THEN 0
    ELSE LET last == cs[Len(cs)]
         IN  IF IsActive(last.show_if, effect_id) /\ last.control_type = "Color"
             THEN MODE_FLAG_HAS_MODE_SPECIFIC_COLOR
             ELSE IF IsActive(last.show_if, effect_id) /\ last.control_type = "ColorPalette"
             THEN MODE_FLAG_HAS_PER_LED_COLOR
             ELSE ColorType(SubSeq(cs, 1, Len(cs) - 1), effect_id)

\* the flags of one effect
EffectFlags(cs, effect_id) ==
    LET has(t) == \E k \in 1..Len(cs) :
                      cs[k].control_type = t /\ IsActive(cs[k].show_if, effect_id)
        color_type == ColorType(cs, effect_id)
    IN  (IF has("Brightness") THEN MODE_FLAG_HAS_BRIGHTNESS ELSE 0)
        + (IF has("Speed") THEN MODE_FLAG_HAS_SPEED ELSE 0)
        + (IF color_type = 0 THEN MODE_FLAG_HAS_RANDOM_COLOR ELSE color_type)

\* the Config parsed_config so far: none, or its leds and effects
NotParsed == [done |-> FALSE, leds |-> <<>>, effects |-> <<>>]

NotCounted == -1

KeyEntries ==
    {Key(0, 0, -1, FALSE), Key(0, 0, 0, FALSE), Key(0, 1, 2, FALSE), Key(1, 0, 2, FALSE),
     Key(0, 0, 255, FALSE), Key(0, 2, 7, TRUE)}

Dropdowns == {<<>>, <<0>>, <<1>>, <<0, 1>>, <<2, 0>>}

ConfigIdle ==
    /\ keymap = <<>>
    /\ menu_controls = <<>>
    /\ effects_dropdown = <<>>
    /\ parsed_config = NotParsed
    /\ led_total = NotCounted

\* keymaps of every length, no menus
LedsInit ==
    /\ keymap \in SeqsUpTo(KeyEntries, MaxKeys)
    /\ menu_controls = <<>>
    /\ effects_dropdown = <<>>
    /\ parsed_config = NotParsed
    /\ led_total = NotCounted

\* menus of every shape, no keymap
EffectsInit ==
    /\ keymap = <<>>
    /\ menu_controls \in SeqsUpTo(Controls, MaxControls)
    /\ effects_dropdown \in Dropdowns
    /\ parsed_config = NotParsed
    /\ led_total = NotCounted

\* Config::from_str
FromStr ==
    /\ ~parsed_config.done
    /\ parsed_config' = [done |-> TRUE,
                  leds |-> [k \in 1..Len(keymap) |-> extract_led(keymap[k])],
                  effects |-> [k \in 1..Len(effects_dropdown) |->
                                 [id |-> effects_dropdown[k],
                                  flags |-> EffectFlags(menu_controls, effects_dropdown[k])]]]
    /\ UNCHANGED <<keymap, menu_controls, effects_dropdown, led_total>>
    /\ UNCHANGED notConfig

\* config.count_leds()
CountLeds ==
    /\ parsed_config.done
    /\ led_total = NotCounted
    /\ led_total' = count_leds(parsed_config.leds)
    /\ UNCHANGED <<keymap, menu_controls, effects_dropdown, parsed_config>>
    /\ UNCHANGED notConfig

(***************************************************************************)
(* KeyboardDevice::send_report (src/src/device.rs:89-108), called by the   *)
(* futures that update_colors and reset_brightness join and by             *)
(* request_report.  cfg!(target_os = "windows") is fixed by the build.     *)
(***************************************************************************)
SendTasks == 1..NumSenders

\* win_lock held by nobody
NoHolder == 0

SendInit ==
    /\ target_windows \in BOOLEAN
    /\ win_lock = NoHolder
    /\ senders = [t \in SendTasks |-> "created"]

SendIdle ==
    /\ target_windows = TRUE
    /\ win_lock = NoHolder
    /\ senders = [t \in SendTasks |-> "created"]

\* the future is polled first: on Windows it goes to self.win_lock.lock(),
\* elsewhere it calls write_output_report at once
SendReport(t) ==
    /\ senders[t] = "created"
    /\ senders' = [senders EXCEPT ![t] = IF target_windows THEN "locking" ELSE "writing"]
    /\ UNCHANGED <<target_windows, win_lock>>
    /\ UNCHANGED notSend

\* self.win_lock.lock().await returns, write_output_report is called
SendLocked(t) ==
    /\ senders[t] = "locking"
    /\ win_lock = NoHolder
    /\ win_lock' = t
    /\ senders' = [senders EXCEPT ![t] = "writing"]
    /\ UNCHANGED target_windows
    /\ UNCHANGED notSend

\* write_output_report(..).await returns Ok or Err: the guard is dropped
\* either way, the future returns that result
SendWritten(t, result) ==
    /\ senders[t] = "writing"
    /\ senders' = [senders EXCEPT ![t] = result]
    /\ win_lock' = IF win_lock = t THEN NoHolder ELSE win_lock
    /\ UNCHANGED target_windows
    /\ UNCHANGED notSend

(***************************************************************************)
(* The registry lock (src/src/keyboards.rs:24, 118-120) as handle          *)
(* (src/src/handlers.rs:27-67) and the hotplug task                        *)
(* (src/src/keyboards.rs:66-109) take it.  A request is modelled by        *)
(* whether a payload follows its length.                                   *)
(***************************************************************************)
Connections == 1..NumConnections

\* the registry lock held by nobody, by the hotplug task
Nobody == 0
HotplugTask == -1

\* the requests of the model: GetControllerCount sends no payload,
\* SetClientName and GetProtocolVersion send one that handle reads
PayloadKinds == {"none", "payload"}

LockInit ==
    /\ registry_lock = Nobody
    /\ conns = [c \in Connections |-> [at |-> "header", kind |-> "none"]]
    /\ sockets = [c \in Connections |-> "nothing"]
    /\ hotplug = "waiting"

LockIdle == LockInit

\* the client sends the header and the payload length of a request
ClientSendsHeader(c) ==
    /\ sockets[c] = "nothing"
    /\ conns[c].at = "header"
    /\ \E k \in PayloadKinds : conns' = [conns EXCEPT ![c].kind = k]
    /\ sockets' = [sockets EXCEPT ![c] = "length"]
    /\ UNCHANGED <<registry_lock, hotplug>>
    /\ UNCHANGED notLock

\* the client sends the rest of its request
ClientSendsPayload(c) ==
    /\ sockets[c] = "length"
    /\ conns[c].kind = "payload"
    /\ sockets' = [sockets EXCEPT ![c] = "payload"]
    /\ UNCHANGED <<registry_lock, conns, hotplug>>
    /\ UNCHANGED notLock

\* handle_connection read the header, handle reads the length:
\* stream.read_u32_le().await returns, ctx.keyboards.items() is called
HandleReadsLength(c) ==
    /\ conns[c].at = "header"
    /\ sockets[c] \in {"length", "payload"}
    /\ conns' = [conns EXCEPT ![c].at = "locking"]
    /\ UNCHANGED <<registry_lock, sockets, hotplug>>
    /\ UNCHANGED notLock

\* let keyboards = ctx.keyboards.items().await: the guard lives in a local
\* of handle until handle returns
items(c) == c

\* items().await returns the guard
HandleLocks(c) ==
    /\ conns[c].at = "locking"
    /\ registry_lock = Nobody
    /\ registry_lock' = items(c)
    /\ conns' = [conns EXCEPT ![c].at = "matched"]
    /\ UNCHANGED <<sockets, hotplug>>
    /\ UNCHANGED notLock

\* the arm of the request: one that reads a payload awaits the socket
\* (stream.read_u32_le, stream.read_exact) until the client has sent it;
\* then handle returns and its locals are dropped
HandleReturns(c) ==
    /\ conns[c].at = "matched"
    /\ conns[c].kind = "payload" => sockets[c] = "payload"
    /\ conns' = [conns EXCEPT ![c] = [at |-> "header", kind |-> "none"]]
    /\ sockets' = [sockets EXCEPT ![c] = "nothing"]
    /\ registry_lock' = IF registry_lock = c THEN Nobody ELSE registry_lock
    /\ UNCHANGED hotplug
    /\ UNCHANGED notLock

\* watcher.next().await returns a Connected or Disconnected event whose
\* arm calls keyboards.lock()
HotplugEvent ==
    /\ hotplug = "waiting"
    /\ hotplug' = "locking"
    /\ UNCHANGED <<registry_lock, conns, sockets>>
    /\ UNCHANGED notLock

\* keyboards.lock().await returns
HotplugLocks ==
    /\ hotplug = "locking"
    /\ registry_lock = Nobody
    /\ registry_lock' = HotplugTask
    /\ hotplug' = "updating"
    /\ UNCHANGED <<conns, sockets>>
    /\ UNCHANGED notLock

\* the insert or shift_remove is done, the temporary guard is dropped
HotplugDone ==
    /\ hotplug = "updating"
    /\ registry_lock' = Nobody
    /\ hotplug' = "waiting"
    /\ UNCHANGED <<conns, sockets>>
    /\ UNCHANGED notLock

(***************************************************************************)
(* Colour frames on keyboards whose LEDs need more than one report         *)
(* (src/src/keyboard.rs:93-157): one update_colors call and the writes of  *)
(* its reports, on a keyboard of FrameLeds LEDs and on the largest one a   *)
(* Config can describe.                                                    *)
(***************************************************************************)
\* the largest LED index of a Config: leds: Vec<Option<(u8, (u8, u8))>>
MaxLedIndex == 255

\* count_leds() of the keyboards of the model
FrameSizes == {FrameLeds, MaxLedIndex + 1}

\* the offsets and lengths a call is made with on a keyboard of n LEDs: the
\* ends of the range, and the lengths around one chunk of either stream
FrameOffsets(n) == {0, 1, n - BrightnessChunk - 1, n - 1, n} \cap 0..n
FrameLengths(n, off) ==
    {0, 1, ChromaChunk, ChromaChunk + 1, BrightnessChunk + 1, n - off, n - off + 1}
        \cap 0..(n + 1)

\* the colour lists of the model: every LED changed, every other LED
\* changed, the first and the last LED changed, every LED dimmed
FramePatterns == {"all", "odd", "ends", "grey"}
FrameColors(pattern, len) ==
    [k \in 1..len |->
        CASE pattern = "all" -> "maroon"
          [] pattern = "odd" -> IF k % 2 = 1 THEN "maroon" ELSE "white"
          [] pattern = "ends" -> IF k \in {1, len} THEN "maroon" ELSE "white"
          [] pattern = "grey" -> "grey"]

\* the image of a keyboard whose cache was read from it
ImageOf(st) ==
    [chroma |-> st.chroma, value |-> st.value, color |-> st.color,
     brightness |-> st.brightness, effect |-> st.effect, speed |-> st.speed,
     saved |-> TRUE]

FrameInit ==
    /\ \E n \in FrameSizes, rgb \in Palette : frame_cache = Uniform(rgb, n, 0, 0, 255)
    /\ frame_device = ImageOf(frame_cache)
    /\ frame_call = NoAction
    /\ frame_reports = <<>>

FrameIdle ==
    /\ frame_cache = InitialState
    /\ frame_device = InitialDevice
    /\ frame_call = NoAction
    /\ frame_reports = <<>>

\* update_colors(colors, offset, with_brightness) up to the point where the
\* futures of its writes are collected and the cache is written
FrameUpdate(colors, off, with_brightness) ==
    /\ frame_call = NoAction
    /\ LET r == update_colors(frame_cache, colors, off, with_brightness)
       IN  /\ frame_cache' = r.st
           /\ frame_reports' = r.reports
           /\ frame_call' = IF r.err THEN [UpdateColors(colors, off, with_brightness)
                                             EXCEPT !.tag = "Failed"]
                            ELSE UpdateColors(colors, off, with_brightness)
    /\ UNCHANGED frame_device
    /\ UNCHANGED notFrame

\* try_join_all polls the futures in the order they were collected: the
\* keyboard receives the next report
FrameWrite ==
    /\ frame_reports # <<>>
    /\ frame_device' = ApplyReport(frame_device, Head(frame_reports))
    /\ frame_reports' = Tail(frame_reports)
    /\ UNCHANGED <<frame_cache, frame_call>>
    /\ UNCHANGED notFrame

(***************************************************************************)
(* The GetControllerData buffer (src/src/handlers.rs:70-163) for a parsed  *)
(* Config: the sequence of its fields, each with its name, its width in    *)
(* bytes and its value.  Texts are modelled by their length.               *)
(***************************************************************************)
Field(name, bytes, value) == [name |-> name, bytes |-> bytes, value |-> value]

\* extend_from_str: the u16 length (the text and its NUL), the text, a NUL
Str(name, len) == Field(name, 2 + len + 1, len + 1)

\* the lengths of the texts of the model: config.name, an effect name,
\* env!("CARGO_PKG_VERSION"), "xxxx:xxxx", "Key: <keycode>"
NameLen == 2
EffectNameLen == 5
VersionLen == 5
IdLen == 9
KeyNameLen == 6

\* config.matrix of the keymaps of the model: (columns, rows)
Matrix == <<3, 2>>

RECURSIVE Flatten(_)
Flatten(seqs) == IF seqs = <<>> THEN <<>> ELSE Head(seqs) \o Flatten(Tail(seqs))

\* buffer.len()
RECURSIVE SumBytes(_)
SumBytes(fields) ==
    IF fields = <<>> THEN 0
    ELSE IF Len(fields) = 1 THEN fields[1].bytes
    ELSE LET half == Len(fields) \div 2
         IN  SumBytes(SubSeq(fields, 1, half))
                 + SumBytes(SubSeq(fields, half + 1, Len(fields)))

\* the fields of one effect
ModeFields(effect) ==
    << Str("mode_name", EffectNameLen), Field("mode_id", 4, effect.id),
       Field("mode_flags", 4, effect.flags),
       Field("speed_min", 4, 0), Field("speed_max", 4, 0),
       Field("brightness_min", 4, 0), Field("brightness_max", 4, 0),
       Field("colors_min", 4, 1), Field("colors_max", 4, 1),
       Field("speed", 4, 0), Field("brightness", 4, 0), Field("direction", 4, 0),
       Field("color_mode", 4,
             IF (effect.flags \div MODE_FLAG_HAS_PER_LED_COLOR) % 2 = 1 THEN 1
             ELSE IF (effect.flags \div MODE_FLAG_HAS_MODE_SPECIFIC_COLOR) % 2 = 1 THEN 2
             ELSE IF (effect.flags \div MODE_FLAG_HAS_RANDOM_COLOR) % 2 = 1 THEN 3
             ELSE 0),
       Field("mode_colors", 2, 1), Field("mode_color", 4, 0) >>

\* buffer.extend_from_slice(&(leds_count as u16).to_le_bytes())
LedCountField(leds) == count_leds(leds) % 65536

\* one record per Some entry of config.leds
LedFields(leds) ==
    Flatten([k \in 1..Len(leds) |->
                IF leds[k].some
                THEN << Str("led_name", KeyNameLen), Field("led_value", 4, leds[k].led) >>
                ELSE <<>>])

\* the buffer before its first four bytes are patched; keyboard.colors() has
\* count_leds() entries (src/src/keyboard.rs:39-45)
BufferOf(config) ==
    << Field("data_size", 4, 0), Field("device_type", 4, 5),
       Str("name", NameLen), Str("vendor", 7), Str("description", NameLen + 16),
       Str("version", VersionLen), Str("serial", IdLen), Str("location", 5 + IdLen),
       Field("mode_count", 2, Len(config.effects) % 65536),
       Field("active_mode", 4, 0) >>
    \o Flatten([k \in 1..Len(config.effects) |-> ModeFields(config.effects[k])])
    \o << Field("zone_count", 2, 1), Str("zone_name", 8), Field("zone_type", 4, 2),
          Field("leds_min", 4, count_leds(config.leds)),
          Field("leds_max", 4, count_leds(config.leds)),
          Field("leds_count", 4, count_leds(config.leds)),
          Field("matrix_data_size", 2, (Matrix[1] * Matrix[2] * 4 + 8) % 65536),
          Field("matrix_height", 4, Matrix[2]), Field("matrix_width", 4, Matrix[1]) >>
    \o [k \in 1..(Matrix[1] * Matrix[2]) |-> Field("matrix_cell", 4, 0)]
    \o << Field("led_count", 2, LedCountField(config.leds)) >>
    \o LedFields(config.leds)
    \o << Field("color_count", 2, count_leds(config.leds) % 65536) >>
    \o [k \in 1..count_leds(config.leds) |-> Field("led_color", 4, 0)]

\* buffer[0..4].copy_from_slice(&buffer_length.to_le_bytes())
Patched(buffer) == [buffer EXCEPT ![1].value = SumBytes(buffer)]

DataIdle == controller_data = <<>>

\* the GetControllerData arm of handle, on the keyboard of the parsed Config
ControllerData ==
    /\ parsed_config.done
    /\ controller_data = <<>>
    /\ controller_data' = Patched(BufferOf(parsed_config))
    /\ UNCHANGED notData

(***************************************************************************)
(* Specifications.                                                         *)
(***************************************************************************)
InitChunks == ChunksInit /\ MergeIdle /\ ActorIdle /\ ChannelIdle /\ ProfileIdle
    /\ RegistryIdle /\ ServerIdle /\ ControllerIdle /\ ReportIdle /\ ConfigIdle /\ SendIdle /\ LockIdle /\ FrameIdle /\ RecoverIdle /\ DataIdle

NextChunks == ChunksNext

SpecChunks == InitChunks /\ [][NextChunks]_vars

InitMerge == ChunksIdle /\ MergeInit /\ ActorIdle /\ ChannelIdle /\ ProfileIdle
    /\ RegistryIdle /\ ServerIdle /\ ControllerIdle /\ ReportIdle /\ ConfigIdle /\ SendIdle /\ LockIdle /\ FrameIdle /\ RecoverIdle /\ DataIdle

NextMerge == MergeCall

SpecMerge == InitMerge /\ [][NextMerge]_vars

Init == ChunksIdle /\ MergeIdle /\ ActorInit /\ ChannelIdle /\ ProfileIdle
    /\ RegistryIdle /\ ServerIdle /\ ControllerIdle /\ ReportIdle /\ ConfigIdle /\ SendIdle /\ LockIdle /\ FrameIdle /\ RecoverIdle /\ DataIdle

Next ==
    \/ \E a \in ClientActions : PerformAction(a)
    \/ WorkerWake
    \/ WorkerTake
    \/ WorkerBegin
    \/ WorkerOperation
    \/ WorkerWrite
    \/ WorkerFinish
    \/ \E r \in Readers : QueryCall(r)
    \/ \E r \in Readers : QueryLock(r)
    \/ \E r \in Readers : QueryRead(r)

Spec == Init /\ [][Next]_vars

\* the update_colors actions whose offset and length are within count_leds
RangeActions == {a \in ColorActions : a.offset + Len(a.colors) <= LedCount}

NextRange ==
    \/ \E a \in RangeActions : PerformAction(a)
    \/ WorkerWake
    \/ WorkerTake
    \/ WorkerBegin
    \/ WorkerOperation
    \/ WorkerWrite
    \/ WorkerFinish

SpecRange == Init /\ [][NextRange]_vars

NextRecover ==
    \/ \E a \in DropActions : PerformAction(a)
    \/ WorkerWake
    \/ WorkerTake
    \/ WorkerBegin
    \/ WorkerOperation
    \/ WorkerWrite
    \/ WorkerFinish
    \/ CloneHandle
    \/ IntoConfig

SpecRecover == Init /\ [][NextRecover]_vars

NextColors ==
    \/ \E a \in ColorActions : PerformAction(a)
    \/ WorkerWake
    \/ WorkerTake
    \/ WorkerBegin
    \/ WorkerOperation
    \/ WorkerWrite
    \/ WorkerFinish

SpecColors == Init /\ [][NextColors]_vars

NextErrors ==
    \/ \E a \in ErrorActions : PerformAction(a)
    \/ WorkerWake
    \/ WorkerTake
    \/ WorkerBegin
    \/ WorkerOperation
    \/ WorkerWrite
    \/ WorkerWriteFails
    \/ WorkerFinish

SpecErrors == Init /\ [][NextErrors]_vars

NextLive ==
    \/ \E a \in LiveActions : PerformAction(a)
    \/ WorkerWake
    \/ WorkerTake
    \/ WorkerBegin
    \/ WorkerOperation
    \/ WorkerWrite
    \/ WorkerFinish
    \/ DropHandle

\* the runtime polls the worker task whenever it can make a step, and
\* every write to the keyboard completes
LiveFairness ==
    /\ WF_vars(WorkerWake)
    /\ WF_vars(WorkerTake)
    /\ WF_vars(WorkerBegin)
    /\ WF_vars(WorkerOperation)
    /\ WF_vars(WorkerWrite)
    /\ WF_vars(WorkerFinish)

SpecLive == Init /\ [][NextLive]_vars /\ LiveFairness

NextDrop ==
    \/ \E a \in DropActions : PerformAction(a)
    \/ WorkerWake
    \/ WorkerTake
    \/ WorkerBegin
    \/ WorkerOperation
    \/ WorkerWrite
    \/ WorkerFinish
    \/ DropHandle

SpecDrop == Init /\ [][NextDrop]_vars /\ LiveFairness

InitController == ChunksIdle /\ MergeIdle /\ ActorIdle /\ ChannelIdle /\ ProfileIdle
    /\ RegistryIdle /\ ServerIdle /\ ControllerInit /\ ReportIdle /\ ConfigIdle /\ SendIdle /\ LockIdle /\ FrameIdle /\ RecoverIdle /\ DataIdle

NextController == \E a \in ControllerOperations : ControllerCall(a)

SpecController == InitController /\ [][NextController]_vars

InitReport == ChunksIdle /\ MergeIdle /\ ActorIdle /\ ChannelIdle /\ ProfileIdle
    /\ RegistryIdle /\ ServerIdle /\ ControllerIdle /\ ReportInit /\ ConfigIdle /\ SendIdle /\ LockIdle /\ FrameIdle /\ RecoverIdle /\ DataIdle

NextReport ==
    \/ \E index \in Indices, byte \in {0, 7} : ReportIndexMut(index, byte)
    \/ \E index \in Indices : ReportIndex(index)
    \/ \E range \in Ranges, byte \in {0, 7} : ReportRangeMut(range, byte)

SpecReport == InitReport /\ [][NextReport]_vars

InitSend == ChunksIdle /\ MergeIdle /\ ActorIdle /\ ChannelIdle /\ ProfileIdle
    /\ RegistryIdle /\ ServerIdle /\ ControllerIdle /\ ReportIdle /\ ConfigIdle
    /\ SendInit /\ LockIdle /\ FrameIdle /\ RecoverIdle /\ DataIdle

NextSend ==
    \/ \E t \in SendTasks : SendReport(t)
    \/ \E t \in SendTasks : SendLocked(t)
    \/ \E t \in SendTasks, result \in {"Ok", "Err"} : SendWritten(t, result)

SpecSend == InitSend /\ [][NextSend]_vars

InitLock == ChunksIdle /\ MergeIdle /\ ActorIdle /\ ChannelIdle /\ ProfileIdle
    /\ RegistryIdle /\ ServerIdle /\ ControllerIdle /\ ReportIdle /\ ConfigIdle
    /\ SendIdle /\ LockInit /\ FrameIdle /\ RecoverIdle /\ DataIdle

NextLock ==
    \/ \E c \in Connections : ClientSendsHeader(c)
    \/ \E c \in Connections : ClientSendsPayload(c)
    \/ \E c \in Connections : HandleReadsLength(c)
    \/ \E c \in Connections : HandleLocks(c)
    \/ \E c \in Connections : HandleReturns(c)
    \/ HotplugEvent
    \/ HotplugLocks
    \/ HotplugDone

SpecLock == InitLock /\ [][NextLock]_vars

InitFrame == ChunksIdle /\ MergeIdle /\ ActorIdle /\ ChannelIdle /\ ProfileIdle
    /\ RegistryIdle /\ ServerIdle /\ ControllerIdle /\ ReportIdle /\ ConfigIdle
    /\ SendIdle /\ LockIdle /\ FrameInit /\ RecoverIdle /\ DataIdle

NextFrame ==
    \/ \E off \in FrameOffsets(Len(frame_cache.chroma)) :
       \E len \in FrameLengths(Len(frame_cache.chroma), off) :
       \E pattern \in FramePatterns, with_brightness \in BOOLEAN :
           FrameUpdate(FrameColors(pattern, len), off, with_brightness)
    \/ FrameWrite

SpecFrame == InitFrame /\ [][NextFrame]_vars

InitLeds == ChunksIdle /\ MergeIdle /\ ActorIdle /\ ChannelIdle /\ ProfileIdle
    /\ RegistryIdle /\ ServerIdle /\ ControllerIdle /\ ReportIdle /\ LedsInit /\ SendIdle /\ LockIdle /\ FrameIdle /\ RecoverIdle /\ DataIdle

NextLeds == FromStr \/ CountLeds

NextData == FromStr \/ ControllerData

SpecLeds == InitLeds /\ [][NextLeds]_vars

SpecData == InitLeds /\ [][NextData]_vars

InitEffects == ChunksIdle /\ MergeIdle /\ ActorIdle /\ ChannelIdle /\ ProfileIdle
    /\ RegistryIdle /\ ServerIdle /\ ControllerIdle /\ ReportIdle /\ EffectsInit /\ SendIdle /\ LockIdle /\ FrameIdle /\ RecoverIdle /\ DataIdle

NextEffects == FromStr \/ CountLeds

SpecEffects == InitEffects /\ [][NextEffects]_vars

InitDevice == ChunksIdle /\ MergeIdle /\ ActorIdle /\ ChannelInit /\ ProfileIdle
    /\ RegistryIdle /\ ServerIdle /\ ControllerIdle /\ ReportIdle /\ ConfigIdle /\ SendIdle /\ LockIdle /\ FrameIdle /\ RecoverIdle /\ DataIdle

NextDevice ==
    \/ \E c \in Callers : CallerSend(c)
    \/ \E c \in Callers : CallerWrite(c)
    \/ \E c \in Callers : CallerPoll(c)
    \/ KeyboardAnswers
    \/ ReaderRecv
    \/ ReaderRead

SpecDevice == InitDevice /\ [][NextDevice]_vars

NextReadErrors ==
    \/ \E c \in Callers : CallerSend(c)
    \/ \E c \in Callers : CallerWrite(c)
    \/ \E c \in Callers : CallerPoll(c)
    \/ KeyboardAnswers
    \/ KeyboardFails
    \/ ReaderRecv
    \/ ReaderRead
    \/ ReaderReadFails

SpecReadErrors == InitDevice /\ [][NextReadErrors]_vars

InitProfile == ChunksIdle /\ MergeIdle /\ ActorIdle /\ ChannelIdle /\ ProfileInit
    /\ RegistryIdle /\ ServerIdle /\ ControllerIdle /\ ReportIdle /\ ConfigIdle /\ SendIdle /\ LockIdle /\ FrameIdle /\ RecoverIdle /\ DataIdle

NextProfile ==
    \/ \E a \in ProfileOperations : ProfileUpdate(a)
    \/ ProfileSave
    \/ \E with_brightness \in BOOLEAN : ProfileLoad(with_brightness)

SpecProfile == InitProfile /\ [][NextProfile]_vars

InitRegistry == ChunksIdle /\ MergeIdle /\ ActorIdle /\ ChannelIdle /\ ProfileIdle
    /\ RegistryInit /\ ServerIdle /\ ControllerIdle /\ ReportIdle /\ ConfigIdle /\ SendIdle /\ LockIdle /\ FrameIdle /\ RecoverIdle /\ DataIdle

NextRegistry ==
    \/ \E id \in DeviceIds, init_ok \in BOOLEAN : Enumerate(id, init_ok)
    \/ \E id \in DeviceIds, found \in BOOLEAN, init_ok \in BOOLEAN :
          Connected(id, found, init_ok)
    \/ \E id \in DeviceIds : Disconnected(id)
    \/ GetControllerCount

SpecRegistry == InitRegistry /\ [][NextRegistry]_vars

InitServer == ChunksIdle /\ MergeIdle /\ ActorIdle /\ ChannelIdle /\ ProfileIdle
    /\ RegistryIdle /\ ServerInit /\ ControllerIdle /\ ReportIdle /\ ConfigIdle /\ SendIdle /\ LockIdle /\ FrameIdle /\ RecoverIdle /\ DataIdle

NextServer == \E req \in Requests : HandleConnection(req)

SpecServer == InitServer /\ [][NextServer]_vars

InitMode == ChunksIdle /\ MergeIdle /\ ActorIdle /\ ChannelIdle /\ ProfileIdle
    /\ RegistryIdle /\ ModeInit /\ ControllerIdle /\ ReportIdle /\ ConfigIdle /\ SendIdle /\ LockIdle /\ FrameIdle /\ RecoverIdle /\ DataIdle

NextMode == \E req \in ModeRequests : HandleConnection(req)

SpecMode == InitMode /\ [][NextMode]_vars

(***************************************************************************)
(* Claims about the chunker (SpecChunks).                                  *)
(***************************************************************************)
\* the 0-based indices at which new differs from ref
DiffIndices(new, ref) == {i \in 0..(Len(new) - 1) : Differs(new, ref, i)}

\* the image obtained by writing every chunk over img at its stated offset
RECURSIVE Overlay(_, _)
Overlay(img, chunks) ==
    IF chunks = <<>> THEN img
    ELSE LET c == Head(chunks)
         IN  Overlay([k \in 1..Len(img) |->
                         IF c.offset < k /\ k <= c.offset + Len(c.slice)
                         THEN c.slice[k - c.offset] ELSE img[k]],
                     Tail(chunks))

\* C1: once the iterator is exhausted, overlaying all yielded chunks onto
\* reference at their offsets gives new's value at every index where new
\* differs from reference: no differing index is left uncovered.
C1_OverlayReproducesNew ==
    exhausted =>
        \A i \in DiffIndices(v, reference) :
            Overlay(reference, yielded)[i + 1] = v[i + 1]

\* C1 witness: an exhausted iterator that yielded several chunks, one of them
\* carrying an unchanged element between two changed ones.
C1_Witness ==
    /\ exhausted
    /\ Len(yielded) >= 2
    /\ \E k \in 1..Len(yielded) :
          \E j \in 1..Len(yielded[k].slice) :
              ~Differs(v, reference, yielded[k].offset + j - 1)

\* C2: every yielded chunk has between 1 and chunk_size elements, lies inside
\* new, and its first and its last element differ from reference.
C2_ChunkBounds ==
    \A k \in 1..Len(yielded) :
        LET c == yielded[k]
        IN  /\ 1 <= Len(c.slice)
            /\ Len(c.slice) <= chunk_size
            /\ c.offset + Len(c.slice) <= Len(v)
            /\ c.slice = SliceIncl(v, c.offset, c.offset + Len(c.slice) - 1)
            /\ Differs(v, reference, c.offset)
            /\ Differs(v, reference, c.offset + Len(c.slice) - 1)

\* C2 witness: a chunk whose window held a trailing unchanged element, which
\* was trimmed (the chunk is shorter than chunk_size and ends before new does).
C2_Witness ==
    \E k \in 1..Len(yielded) :
        /\ Len(yielded[k].slice) >= 2
        /\ Len(yielded[k].slice) < chunk_size
        /\ yielded[k].offset + Len(yielded[k].slice) < Len(v)

\* the least number of index windows [s, s + cs) covering every index of D
MinWindows(D, n, cs) ==
    LET Covers(S) == \A d \in D : \E s \in S : s <= d /\ d < s + cs
        sizes == {Cardinality(S) : S \in {T \in SUBSET (0..(n - 1)) : Covers(T)}}
    IN  CHOOSE k \in sizes : \A m \in sizes : k <= m

\* C3: the number of chunks yielded is the minimum number of windows of width
\* chunk_size covering every differing index; it is zero exactly when new
\* equals reference on all of new's indices.
C3_MinimalChunkCount ==
    exhausted =>
        /\ Len(yielded) = MinWindows(DiffIndices(v, reference), Len(v), chunk_size)
        /\ (Len(yielded) = 0) <=> (DiffIndices(v, reference) = {})

\* C3 witness: fewer chunks than differing indices, and more than one chunk.
C3_Witness ==
    /\ exhausted
    /\ Len(yielded) >= 2
    /\ Cardinality(DiffIndices(v, reference)) > Len(yielded)


(***************************************************************************)
(* Claims about merge_colors (SpecMerge).                                  *)
(***************************************************************************)
\* the colour a list (colors at off) holds for absolute index i, None outside
ColorAt(colors, off, i) ==
    IF off <= i /\ i < off + Len(colors) THEN colors[i - off + 1] ELSE None

Covered(colors, off, i) == off <= i /\ i < off + Len(colors)

\* C4: merge_colors returns offset = min(old_offset, new_offset) and a list
\* covering both ranges, of length max(end_old, end_new) - min offset, holding
\* at each absolute index new's colour where new covers it, otherwise old's
\* where old covers it, otherwise None; also when one range lies inside the
\* other.
C4_MergeCoversBothRanges ==
    LET a       == merge_args
        r       == merge_result
        lo      == Min(a.offset_old, a.offset_new)
        end_old == a.offset_old + Len(a.colors_old)
        end_new == a.offset_new + Len(a.colors_new)
        hi      == Max(end_old, end_new)
    IN  (r.returned /\ Len(a.colors_old) > 0 /\ Len(a.colors_new) > 0) =>
        /\ ~r.panicked
        /\ r.offset = lo
        /\ Len(r.colors) = hi - lo
        /\ \A i \in lo..(hi - 1) :
              r.colors[i - lo + 1] =
                  IF Covered(a.colors_new, a.offset_new, i)
                  THEN ColorAt(a.colors_new, a.offset_new, i)
                  ELSE ColorAt(a.colors_old, a.offset_old, i)


(***************************************************************************)
(* Claims about the keyboard actor (Spec, SpecColors).                     *)
(***************************************************************************)
RECURSIVE ApplyAll(_, _)
ApplyAll(dev, reports) ==
    IF reports = <<>> THEN dev
    ELSE ApplyAll(ApplyReport(dev, Head(reports)), Tail(reports))

\* the per-LED colours of the cache and of the keyboard
PerLed(st, dev) ==
    [cached_chroma |-> st.chroma, cached_value |-> st.value,
     device_chroma |-> dev.chroma, device_value |-> dev.value]

\* the cache and the keyboard after update_colors ran on them to completion
AfterUpdateColors(kb, call) ==
    LET r == update_colors(kb.state, call.colors, call.offset, call.with_brightness)
    IN  [state |-> r.st, device |-> ApplyAll(kb.device, r.reports)]

\* the worker is about to execute an UpdateColors action merged from exactly
\* two update_colors calls
AboutToRunMerged ==
    /\ worker = "locking"
    /\ action.tag = "UpdateColors"
    /\ Len(action_calls) = 2

\* C5: executing the action merged from two coalesced update_colors calls
\* leaves the keyboard and the cached state exactly as executing the first
\* call and then the second would, for all offsets, lengths and flags.
C5_MergedActsLikeBothCalls ==
    AboutToRunMerged =>
        LET now == [state |-> state, device |-> device]
            merged == AfterUpdateColors(now, TheCall(action))
            both == AfterUpdateColors(AfterUpdateColors(now, action_calls[1]),
                                      action_calls[2])
        IN  PerLed(merged.state, merged.device) = PerLed(both.state, both.device)

\* the worker removes an entry from the map in this step
Takes == worker = "draining" /\ worker' = "locking"

\* C6: the map holds at most one action per variant, so at most 8; a queued
\* action of a variant other than UpdateColors is the latest one committed
\* for that variant, and so is every action the worker takes: a replaced
\* action is never executed.
C6_OnePerVariant ==
    /\ Len(actions) <= 8
    /\ \A i, j \in 1..Len(actions) : actions[i].tag = actions[j].tag => i = j
    /\ \A k \in 1..Len(actions) :
          /\ actions[k].tag \in Tags
          /\ actions[k].tag # "UpdateColors" => actions[k] = latest[actions[k].tag]

C6_NewerWins ==
    /\ []C6_OnePerVariant
    /\ [][Takes /\ action'.tag # "UpdateColors" => action' = latest[action'.tag]]_vars

\* C6 witness: a queued action that replaced an older one of its variant,
\* behind an action of another variant.
C6_Witness ==
    /\ worker = "waiting"
    /\ calls_left = MaxCalls - 3
    /\ actions = <<UpdateSpeed(1), UpdateEffect(2)>>
    /\ latest["UpdateEffect"] = UpdateEffect(2)

\* C7: the map is ordered by the latest perform_action of each queued
\* variant, and the worker takes the entry whose latest perform_action is the
\* earliest: of two queued actions the one committed first is executed first.
C7_ExecutesInCommitOrder ==
    /\ [](TagsOf(actions) = order)
    /\ [][Takes => action'.tag = Head(order)]_vars

\* C7 witness: the worker took an action while a variant committed before it,
\* and committed again since, stays queued.
C7_Witness ==
    /\ worker = "locking"
    /\ action.tag = "UpdateSpeed"
    /\ Len(actions) >= 1
    /\ actions[1].tag = "UpdateEffect"
    /\ calls_left = MaxCalls - 3

\* C8: one operation touches the controller at a time.  While an action is
\* between its start and the completion of its writes the worker holds the
\* controller, no query reads it, and the worker holds one action only.
C8_OneOperationAtATime ==
    /\ worker = "executing" => keyboard_lock = ByWorker
    /\ (todo # <<>> \/ writes # {}) => worker = "executing"
    /\ (action.tag # "none") <=> (worker \in {"locking", "executing"})
    /\ \A r \in Readers :
          readers[r] = "reading" =>
              /\ keyboard_lock = ByQuery(r)
              /\ worker # "executing"

\* C8 witness: a query waits for the controller while an action has written
\* some of its reports and not yet all.
C8_Witness ==
    /\ worker = "executing"
    /\ writes # {}
    /\ \E r \in Readers : readers[r] = "waiting"


(***************************************************************************)
(* Claims about the device channel (SpecDevice).                           *)
(***************************************************************************)
\* the reader task holds caller c's registration in its pending list
Installed(c) == \E k \in 1..Len(requests) : requests[k].slot = c

\* caller c wrote its request and nothing can answer it any more: it has no
\* data, no entry in the pending list or on its way there gets any, or no
\* report that starts with its prefix is left in the pipe
Unanswered(c) ==
    /\ callers[c].at \in {"written", "pending"}
    /\ slots[c].data = NoReport
    /\ \A k \in 1..Len(hid_out) : ~StartsWith(Answer(hid_out[k]), SubSeq(callers[c].report, 1, 3))
    /\ \A k \in 1..Len(hid_in) : ~StartsWith(hid_in[k], SubSeq(callers[c].report, 1, 3))

\* C9: a request is written to the keyboard only after the reader task holds
\* the caller's registration, so no response is read before its listener
\* exists and lost: a caller that wrote its request has its registration
\* installed until it is given its data, and is never left unanswered.
C9_RegisteredBeforeWrite ==
    \A c \in Callers :
        /\ (callers[c].at \in {"written", "pending"} /\ slots[c].data = NoReport)
               => Installed(c)
        /\ ~Unanswered(c)

\* the pending list without the earliest entry whose prefix starts the buffer
RetainFirstOnly(reqs, buffer) ==
    LET hits == {k \in 1..Len(reqs) : StartsWith(buffer, reqs[k].prefix)}
        first == CHOOSE k \in hits : \A j \in hits : k <= j
    IN  IF hits = {} THEN reqs
        ELSE [k \in 1..(Len(reqs) - 1) |-> IF k < first THEN reqs[k] ELSE reqs[k + 1]]

\* the reader task reads an input report in this step
Reads == hid_in # <<>> /\ hid_in' = Tail(hid_in) /\ hid_out' = hid_out

\* C10: a read satisfies and removes exactly one pending entry, the earliest
\* whose prefix starts the report; every other entry, later matching ones
\* included, stays pending and receives no data.
C10_ReadSatisfiesFirstMatchOnly ==
    [][Reads =>
          LET kept == RetainFirstOnly(requests, Head(hid_in))
          IN  /\ requests' = kept
              /\ \A c \in Callers :
                    c \notin Satisfied(requests, kept) => slots'[c] = slots[c]
      ]_vars

\* the input reports the reader task has read so far: every request written
\* is answered once, and an answer is either still in the pipe or was read
ReportsRead ==
    Cardinality({c \in Callers : callers[c].at \in {"written", "pending", "woken", "done"}})
        - Len(hid_out) - Len(hid_in)

\* the callers that were handed a report
Served == {c \in Callers : slots[c].data # NoReport \/ callers[c].at = "done"}

\* C11: pending request_report calls with the same prefix are resolved one
\* report each, in the order of their registrations: a report resolves one
\* registration, so no more callers have been handed a report than reports
\* were read, and two callers never receive the same report.
C11_OneReportEach == Cardinality(Served) <= ReportsRead


(***************************************************************************)
(* Claims about profiles (SpecProfile).                                    *)
(***************************************************************************)
\* C12: save_state followed by load_state of the saved text with
\* with_brightness = true leaves every field of the KeyboardState (per-LED
\* chroma and value, mode colour, brightness, effect, speed) as it was before
\* the save, LEDs of value 0 or saturation 0 included.
C12_RoundTrip == round = "loaded" => keyboard = kb_saved


(***************************************************************************)
(* Claims about the registry (SpecRegistry).                               *)
(***************************************************************************)
\* the DeviceIds in the device map
RegisteredIds == {keyboards[k].id : k \in 1..Len(keyboards)}

\* the watcher handles a hotplug event in this step
Hotplug == events_left' = events_left - 1

\* C13: after any sequence of initial enumeration, connect and disconnect
\* events, the value GetControllerCount returns is the number of distinct
\* DeviceIds in the registry at the moment the request is handled.
C13_CountIsRegistrySize ==
    event.kind = "GetControllerCount" => count_reply = Cardinality(RegisteredIds)

C13_Witness ==
    /\ event.kind = "GetControllerCount"
    /\ count_reply = 1
    /\ sender >= 2
    /\ attached = {1, 2, 4}

\* C14: a disconnect of a registered device removes its actor from the device
\* map, keeps the order of the others and puts its Config back into the
\* pending map; a connect that registers a device builds the actor from the
\* pending Config of its (VID,PID) and appends it at the end of the map.
C14_DisconnectKeepsConfigAndOrder ==
    [][/\ (Hotplug /\ event'.kind = "Disconnected" /\ event'.id \in RegisteredIds) =>
             LET id == event'.id
                 others == {k \in 1..Len(keyboards) : keyboards[k].id # id}
             IN  /\ Len(keyboards') = Cardinality(others)
                 /\ \A k \in others :
                       keyboards'[Cardinality({j \in others : j <= k})] = keyboards[k]
                 /\ \A k \in 1..Len(keyboards) :
                       keyboards[k].id = id => keyboards[k].config \in configs'
       /\ (Hotplug /\ event'.kind = "Connected" /\ keyboards' # keyboards) =>
             \E c \in configs :
                /\ c.vendor_product = DeviceOf(event'.id).vendor_product
                /\ keyboards' = Append(keyboards, Registered(event'.id, c))
      ]_vars

C14_Witness ==
    /\ event = Event("Connected", 1, TRUE)
    /\ events_left = MaxEvents - 2
    /\ sender = 2
    /\ attached = {1, 3}
    /\ keyboards = <<Registered(3, ConfigB), Registered(1, ConfigA)>>

\* C15: a Keyboard is constructed and registered only for a device with
\* usage_page 0xFF60 and usage_id 0x61 whose (VID,PID) had a Config in the
\* pending map, in the initial enumeration and on hotplug connects alike.
\* A step constructs a Keyboard when it takes a Config out of the pending map
\* and registers one when the device map gains an entry.
C15_OnlyQmkDevicesRegistered ==
    [][(configs \ configs' # {} \/ Len(keyboards') > Len(keyboards)) =>
          LET d == DeviceOf(event'.id)
          IN  /\ d.usage_page = QMK_USAGE_PAGE
              /\ d.usage_id = QMK_USAGE_ID
              /\ PendingConfig(configs, d.vendor_product) # <<>>
      ]_vars

\* C16: the registry broadcasts exactly when a hotplug event changed the
\* device map, once per such event: after a connect that inserted an actor
\* and after a disconnect that removed one; an event that leaves the map as it
\* was (no config, failed initialisation, unregistered id) broadcasts nothing.
C16_BroadcastIffMapChanged ==
    [][IF Hotplug /\ keyboards' # keyboards
       THEN sender' = sender + 1
       ELSE sender' = sender]_vars

C16_Witness ==
    /\ event.kind \in {"Connected", "Disconnected"}
    /\ ~event.changed
    /\ sender >= 1
    /\ Len(keyboards) = 1


\* a step in which the server takes a request from the connection
Serves == requests_left' = requests_left - 1

\* C17: a request whose magic is not 'ORGB' ends the connection with the
\* error "Invalid packet header!" after the magic alone has been read: no
\* handler runs, nothing is written to the client, no HID report is written
\* and no keyboard or client state changes.
C17_BadMagicEndsConnection ==
    [][(Serves /\ served'.request.magic # Magic) =>
            /\ connection' = "closed"
            /\ failure' = "Invalid packet header!"
            /\ served'.words = 1
            /\ ~served'.ran
            /\ UNCHANGED <<responses, sent_reports, devices, client>>]_vars

\* a request was answered and the next one, with a wrong magic, ended the
\* connection
C17_Witness ==
    /\ connection = "closed"
    /\ failure = "Invalid packet header!"
    /\ served.request.magic # Magic
    /\ responses # <<>>

\* the bytes a step appended to the connection
Written == SubSeq(responses', Len(responses) + 1, Len(responses'))

\* C18: whatever a step writes to the client is one frame: 'ORGB', device 0,
\* the id of the request served, the number of data bytes, then the data.
\* GetProtocolVersion that the handler accepts is answered with id 40,
\* length 4 and the server's version in little-endian, whatever version the
\* client sent.
C18_ResponseFraming ==
    [][Serves =>
         /\ Written # <<>> =>
              /\ Len(Written) >= 16
              /\ SubSeq(Written, 1, 4) = <<79, 82, 71, 66>>
              /\ SubSeq(Written, 5, 8) = <<0, 0, 0, 0>>
              /\ SubSeq(Written, 9, 12) = ToLeBytes(served'.request.kind)
              /\ SubSeq(Written, 13, 16) = ToLeBytes(Len(Written) - 16)
         /\ (served'.ok /\ served'.request.kind = GetProtocolVersionId) =>
              /\ Len(Written) = 20
              /\ SubSeq(Written, 9, 12) = <<40, 0, 0, 0>>
              /\ SubSeq(Written, 13, 16) = <<4, 0, 0, 0>>
              /\ SubSeq(Written, 17, 20) = ToLeBytes(OPENRGB_PROTOCOL_VERSION)]_vars

\* a client of version 3 asked for the protocol version and was answered
C18_Witness ==
    /\ served.ok
    /\ served.request.kind = GetProtocolVersionId
    /\ served.request.payload = <<3>>
    /\ Len(responses) = 20

\* the requests that address no keyboard
Global == {GetProtocolVersionId, GetControllerCountId, SetClientNameId}

\* C19: device_index is looked up only for the requests that address a
\* keyboard.  Such a request with an index past the registry fails with
\* "Unknown device!", writes no HID report and changes no state;
\* GetProtocolVersion, GetControllerCount and SetClientName succeed for every
\* index.
C19_DeviceIndexOnlyWhenNeeded ==
    [][(Serves /\ served'.request.magic = Magic) =>
         IF served'.request.kind \in Global
         THEN served'.ok
         ELSE served'.request.device >= Len(devices) =>
                /\ ~served'.ok
                /\ failure' = "Unknown device!"
                /\ UNCHANGED <<responses, sent_reports, devices, client>>]_vars

\* a SetCustomMode request served for a registered keyboard
CustomModeServed ==
    /\ Serves
    /\ served'.ran
    /\ served'.request.kind = SetCustomModeId
    /\ served'.request.device < Len(devices)

\* the per-LED effects of the keyboard the request addresses, in Config order
PerLedEffects ==
    SelectSeq(devices[served'.request.device + 1].config.effects,
              LAMBDA e : HasFlag(e.flags, MODE_FLAG_HAS_PER_LED_COLOR))

\* the report SetCustomMode is to write for the first per-LED effect
CustomModeReport ==
    [device |-> served'.request.device,
     report |-> <<7, 3, 2, PerLedEffects[1].id % 256>>]

\* C20 as stated: SetCustomMode writes exactly one report
\* [0x07,0x03,0x02,effect_id] for the first per-LED effect whatever effect is
\* active, and writes nothing and changes nothing without such an effect.
C20_AlwaysOneReport ==
    [][CustomModeServed =>
         IF PerLedEffects # <<>>
         THEN sent_reports' = Append(sent_reports, CustomModeReport)
         ELSE UNCHANGED <<sent_reports, devices>>]_vars

\* C20 as the code has it: SetCustomMode writes exactly one report
\* [0x07,0x03,0x02,effect_id] for the first per-LED effect when that effect is
\* not the one the controller already shows, and leaves the controller showing
\* it; when it is already shown, or the Config has no per-LED effect, nothing
\* is written and nothing changes.
C20_OneReportUnlessActive ==
    [][CustomModeServed =>
         LET shown == devices[served'.request.device + 1].state.effect
         IN  IF PerLedEffects # <<>> /\ PerLedEffects[1].id % 256 # shown
             THEN /\ sent_reports' = Append(sent_reports, CustomModeReport)
                  /\ devices' = [devices EXCEPT
                        ![served'.request.device + 1].state.effect =
                            PerLedEffects[1].id % 256]
             ELSE UNCHANGED <<sent_reports, devices>>]_vars

\* SetCustomMode moved a keyboard with two per-LED effects from effect 1 to
\* the first of them
C20_Witness ==
    /\ served.ok
    /\ served.request.kind = SetCustomModeId
    /\ Len(sent_reports) = 1
    /\ sent_reports[1].report = <<7, 3, 2, 2>>
    /\ devices[sent_reports[1].device + 1].config = ConfigA
    /\ devices[sent_reports[1].device + 1].state.effect = 2


\* a step of handle that serves UpdateMode or SaveMode for a registered
\* keyboard
ModeServed ==
    /\ Serves
    /\ dispatcher = "handle"
    /\ served'.request.kind \in {UpdateModeId, SaveModeId}
    /\ served'.request.device < Len(devices)

\* the reports a step wrote to the keyboards
NewReports == SubSeq(sent_reports', Len(sent_reports) + 1, Len(sent_reports'))

\* the persist report [SAVE_COMMAND, RGB_MATRIX_CHANNEL] to the keyboard a
\* request addresses
PersistReport(req) == [device |-> req.device, report |-> <<9, 3>>]

\* the same mode description sent with the other of the two request ids
Twin(req) ==
    Req(req.magic, req.device,
        IF req.kind = SaveModeId THEN UpdateModeId ELSE SaveModeId,
        req.payload)

OutOfRange(a) ==
    a.tag = "UpdateColors" /\ a.offset + Len(a.colors) > Len(state.chroma)

\* handle_action returns to the drain loop in this step
Returns == worker = "executing" /\ worker' # "executing"

\* C22: update_colors with offset + len(colors) > count_leds returns an error,
\* writes no report and leaves the cached chroma and value arrays (and the
\* keyboard) as they were; the worker then goes on with its drain loop, the
\* queue untouched, so that the actions behind the failed one are executed.
C22_OutOfRangeIsConfined ==
    /\ [][(worker = "executing" /\ todo # <<>> /\ OutOfRange(Head(todo))
              /\ todo' # todo) =>
            /\ failed'
            /\ writes' = {}
            /\ todo' = <<>>
            /\ state' = state
            /\ device' = device]_vars
    /\ [](failed /\ OutOfRange(action) =>
            /\ writes = {}
            /\ Snapshot(state, device) = before)
    /\ [][(failed /\ OutOfRange(action) /\ Returns) =>
            /\ worker' = "draining"
            /\ actions' = actions
            /\ ~poisoned'
            /\ keyboard_lock' = Unlocked]_vars

\* an out-of-range update_colors has just failed while another action waits
\* in the queue
C22_Witness ==
    /\ failed
    /\ OutOfRange(action)
    /\ actions # <<>>
    /\ worker = "executing"

\* C29: an error of handle_action does not stop the worker, and the actions
\* queued behind the failed one and submitted after it run as if it had not
\* been there: when the failed call returns the drain loop goes on, the queue
\* is untouched, and the cache and the keyboard are what they were when the
\* call began.
C29_FailedActionLeavesNoTrace ==
    [][(failed /\ Returns) =>
            /\ worker' = "draining"
            /\ actions' = actions
            /\ Snapshot(state', device') = before]_vars

\* the update_colors call the worker runs, made on a cache
Repeated(st) == update_colors(st, action.colors, action.offset, action.with_brightness)

\* the worker runs an update_colors call that is in range and has updated
\* the cache
ColorsIssued ==
    /\ worker = "executing"
    /\ action.tag = "UpdateColors"
    /\ ~OutOfRange(action)
    /\ todo = <<>>

\* C31: update_colors writes the new chroma (and with with_brightness the
\* new value) into the cache before any of its writes completes; when a
\* write fails the call returns the error and the cache keeps the new
\* values, so the same update_colors repeated afterwards emits no report.
C31_CacheKeepsFailedUpdate ==
    /\ [][(worker = "executing" /\ todo # <<>> /\ Head(todo).tag = "UpdateColors"
              /\ ~OutOfRange(Head(todo)) /\ todo' # todo) =>
            /\ state' = Repeated(state).st
            /\ writes' = Range(Repeated(state).reports)
            /\ device' = device]_vars
    /\ [](ColorsIssued =>
            /\ state = Repeated(before.state).st
            /\ Repeated(state).reports = <<>>)
    /\ [][(ColorsIssued /\ writes # {} /\ writes' = {} /\ device' = device) =>
            /\ failed'
            /\ state' = state]_vars

\* a write of an update_colors call failed: the call returns its error, the
\* cache holds the new colour and the keyboard does not
C31_Witness ==
    /\ ColorsIssued
    /\ failed
    /\ state.chroma # before.state.chroma
    /\ device.chroma = before.device.chroma


(***************************************************************************)
(* Claims about the controller's operations (SpecController).              *)
(***************************************************************************)
\* a call is made in this step
Calls == calls_made' = calls_made + 1

\* the cached value an update compares with, and the value it is given
Cached(st, a) ==
    CASE a.tag = "UpdateEffect" -> <<st.effect>>
      [] a.tag = "UpdateSpeed" -> <<st.speed>>
      [] a.tag = "UpdateBrightness" -> <<st.brightness>>
      [] a.tag = "UpdateColor" -> st.color
Given(a) ==
    IF a.tag = "UpdateColor"
    THEN <<RgbToHsv(a.color).hue, RgbToHsv(a.color).saturation>>
    ELSE <<a.value>>

\* the subcommand of the report each update writes
CommandOf(a) ==
    CASE a.tag = "UpdateEffect" -> "EFFECT"
      [] a.tag = "UpdateSpeed" -> "SPEED"
      [] a.tag = "UpdateBrightness" -> "BRIGHTNESS"
      [] a.tag = "UpdateColor" -> "COLOR"

\* C23: update_effect, update_speed, update_brightness and update_color write
\* no report and change nothing when the value given equals the cached one,
\* and write exactly one report, carrying the value, when it differs; the
\* cache then holds the value given.  The same update called twice in a row
\* writes at most one report.
C23_UpdatesShortCircuit ==
    [][(Calls /\ operation'.tag \in {"UpdateEffect", "UpdateSpeed",
                                     "UpdateBrightness", "UpdateColor"}) =>
         LET a == operation'
         IN  /\ IF Cached(controller, a) = Given(a)
                THEN emitted' = <<>> /\ controller' = controller
                ELSE /\ Len(emitted') = 1
                     /\ emitted'[1].cmd = CommandOf(a)
                     /\ emitted'[1].data = Given(a)
             /\ Cached(controller', a) = Given(a)
             /\ calls_made = 1 => Len(emitted) + Len(emitted') <= 1]_vars

\* update_speed(1) wrote a report and, called again, wrote none
C23_Witness ==
    /\ calls_made = 2
    /\ operation = UpdateSpeed(1)
    /\ controller.speed = 1
    /\ emitted = <<>>

\* C24: update_colors with with_brightness = false writes no
\* MATRIX_BRIGHTNESS report and leaves the cached value array as it was, for
\* every colour list and offset: it writes MATRIX_CHROMA reports only and
\* changes nothing of the cache but the chroma array.
C24_NoBrightnessWithoutFlag ==
    [][(Calls /\ operation'.tag = "UpdateColors" /\ ~operation'.with_brightness) =>
         /\ \A k \in 1..Len(emitted') : emitted'[k].cmd = "MATRIX_CHROMA"
         /\ controller'.value = controller.value
         /\ controller' = [controller EXCEPT !.chroma = controller'.chroma]]_vars

\* update_colors without the flag set a LED whose value was 255 to maroon
\* (value 128): the chroma went out, the cached value stayed
C24_Witness ==
    /\ calls_made = 1
    /\ operation.tag = "UpdateColors"
    /\ ~operation.with_brightness
    /\ operation.colors[1] = "maroon"
    /\ operation.offset = 0
    /\ emitted # <<>>
    /\ controller.chroma[1] = <<0, 255>>
    /\ controller.value[1] = 255


(***************************************************************************)
(* Claims about Report (SpecReport).                                       *)
(***************************************************************************)
\* the payload positions a range names: a..b names a, .., b - 1
Named(range, n) ==
    LET first == IF range.start.kind = "Unbounded" THEN 0 ELSE range.start.at
        last == CASE range.end.kind = "Unbounded" -> n - 2
                  [] range.end.kind = "Excluded" -> range.end.at - 1
                  [] range.end.kind = "Included" -> range.end.at
    IN  [k \in 1..(last - first + 1) |-> first + k - 1]

LedIndices == {parsed_config.leds[k].led : k \in {j \in 1..Len(parsed_config.leds) : parsed_config.leds[j].some}}

\* C26: count_leds is 1 + the greatest led_index of Config.leds when there
\* is a LED entry, and 0 when there is none; the keys the parser dropped do
\* not count.
C26_CountLedsIsOnePastMax ==
    led_total # NotCounted =>
        led_total = IF LedIndices = {} THEN 0
                    ELSE 1 + (CHOOSE n \in LedIndices : \A o \in LedIndices : o <= n)

\* counted: a keymap with a key that was dropped and LEDs out of order
C26_Witness ==
    /\ led_total = 3
    /\ Len(parsed_config.leds) = 3
    /\ ~parsed_config.leds[1].some
    /\ parsed_config.leds[2].led = 2
    /\ parsed_config.leds[3].led = 0

\* the controls whose predicate parses
Parsable(cs) == SelectSeq(cs, LAMBDA c : c.show_if.kind # "unparsable")

\* C27: the parser sets HAS_RANDOM_COLOR for an effect exactly when neither
\* HAS_PER_LED_COLOR nor HAS_MODE_SPECIFIC_COLOR is set and the id is not 0
\* (an effect 0 without colour control gets no colour flag); a control whose
\* predicate does not parse contributes no flag.
C27_RandomColorUnlessIdZero ==
    \A k \in 1..Len(parsed_config.effects) :
        LET e == parsed_config.effects[k]
        IN  /\ HasFlag(e.flags, MODE_FLAG_HAS_RANDOM_COLOR) <=>
                  /\ ~HasFlag(e.flags, MODE_FLAG_HAS_PER_LED_COLOR)
                  /\ ~HasFlag(e.flags, MODE_FLAG_HAS_MODE_SPECIFIC_COLOR)
                  /\ e.id # 0
            /\ e.flags = EffectFlags(Parsable(menu_controls), e.id)


(***************************************************************************)
(* Claims about the worker's progress and its end (SpecLive, SpecDrop).    *)
(***************************************************************************)
\* an action of the variant is queued
Committed(t) == \E k \in 1..Len(actions) : actions[k].tag = t

\* handle_action runs an action of the variant: the queued one, or the one
\* that superseded it
Executing(t) == worker = "executing" /\ action.tag = t

\* C28: every action committed to the queue is eventually executed by the
\* worker or superseded by a newer action of its variant (which is then
\* executed in its place), provided each handle_action call returns and the
\* actor is not dropped; the worker never waits without a permit while the
\* queue holds an entry.
C28_CommittedIsExecuted ==
    /\ \A t \in Tags : Committed(t) ~> (Executing(t) \/ handles = 0)
    /\ [](handles > 0 => ~(worker = "waiting" /\ actions # <<>> /\ ~notify_permit))

\* the worker task has ended
Ended == worker \in {"terminated", "panicked"}

\* C30: once every external handle of an actor is dropped its worker task
\* eventually ends, and after the drop no upgrade succeeds: the worker
\* begins no drain iteration, so it starts at most the action of the
\* iteration whose upgrade preceded the drop and leaves the rest queued.
C30_EndsAfterIterationUnderWay ==
    /\ (handles = 0) ~> Ended
    /\ [][handles' = 0 /\ worker' = "draining" => worker = "draining"]_vars
    /\ [][Ended => worker' = worker /\ actions' = actions]_vars

\* the task ended after the drop with an action still queued
C30_Witness ==
    /\ handles = 0
    /\ worker = "terminated"
    /\ actions # <<>>

\* C30 as stated: once every external handle is dropped the worker
\* eventually terminates, and after the drop it starts no further action
\* even if actions are still queued.
C30_NothingStartsAfterDrop ==
    /\ (handles = 0) ~> Ended
    /\ [][handles = 0 => /\ ~(worker = "draining" /\ worker' = "locking")
                         /\ ~(worker = "locking" /\ worker' = "executing")]_vars


(***************************************************************************)
(* Claims about send_report (SpecSend).                                    *)
(***************************************************************************)
\* the futures inside write_output_report
Writing == {t \in SendTasks : senders[t] = "writing"}

\* C32: the writes to one device are serialised: in every interleaving of
\* the send_report futures joined by one update_colors or reset_brightness
\* and those of request_report, at most one write_output_report call on the
\* device is in progress at any time.
C32_OneWriteAtATime == Cardinality(Writing) <= 1


(***************************************************************************)
(* Claims about failing reads (SpecReadErrors).                            *)
(***************************************************************************)
\* the reader task takes a failed read in this step
ReadFailed == hid_in # <<>> /\ Head(hid_in) = ReadError /\ hid_in' = Tail(hid_in)

\* C33: when an HID read fails the reader task exits, and the failed read
\* resolves no pending request: it delivers no buffer to a pending entry and
\* removes no entry from the pending list.
C33_FailedReadEndsReader ==
    [][ReadFailed =>
            /\ reader' # "running"
            /\ requests' = requests
            /\ slots' = slots]_vars


(***************************************************************************)
(* Claims about the registry lock (SpecLock).                              *)
(***************************************************************************)
\* the handler of the connection awaits bytes its client has not sent
AwaitsSocket(c) ==
    /\ conns[c].at = "matched"
    /\ conns[c].kind = "payload"
    /\ sockets[c] # "payload"

\* somebody waits for the registry lock
Blocked(c) == hotplug = "locking" \/ \E o \in Connections \ {c} : conns[o].at = "locking"

\* C34: a connection handler holds the registry lock only briefly and never
\* across a socket read: a client that stalls after the header and the
\* payload length of its request, before the rest of its payload, blocks
\* neither the hotplug task nor the requests of other connections.
C34_NoLockAcrossSocketRead ==
    \A c \in Connections : ~(registry_lock = c /\ AwaitsSocket(c) /\ Blocked(c))


(***************************************************************************)
(* Claims about colour frames (SpecFrame).                                 *)
(***************************************************************************)
\* a matrix report addresses LEDs of the keyboard, its count byte is the
\* number of LEDs it carries and its data fits behind the five header bytes
WellFormed(r, n) ==
    /\ r.count >= 1
    /\ r.start + r.count <= n
    /\ r.cmd = "MATRIX_CHROMA" => r.count = Len(r.pairs) /\ 5 + 2 * Len(r.pairs) <= ReportLen
    /\ r.cmd = "MATRIX_BRIGHTNESS" => r.count = Len(r.data) /\ 5 + Len(r.data) <= ReportLen

\* C35: if the device's per-LED chroma and value image equals the cache
\* before a successful update_colors, the reports it emits, applied at their
\* start byte with their count byte, make the image equal to the new cache;
\* every report has a count of at least 1, addresses LEDs below count_leds
\* with neither byte truncated, and its data fits in the report payload.
C35_FrameCoherence ==
    /\ \A k \in 1..Len(frame_reports) :
           WellFormed(frame_reports[k], Len(frame_cache.chroma))
    /\ frame_call.tag = "UpdateColors" /\ frame_reports = <<>> =>
           /\ frame_device.chroma = frame_cache.chroma
           /\ frame_device.value = frame_cache.value

\* a frame of several reports per stream that ends on LED 255 has been
\* written to a keyboard whose first LED it left alone
C35_Witness ==
    /\ frame_call.tag = "UpdateColors"
    /\ frame_call.with_brightness
    /\ frame_reports = <<>>
    /\ frame_call.offset > 0
    /\ Len(frame_call.colors) > BrightnessChunk
    /\ frame_call.offset + Len(frame_call.colors) = MaxLedIndex + 1
    /\ frame_device.chroma[MaxLedIndex + 1] = <<0, 255>>
    /\ frame_device.value[MaxLedIndex + 1] = 128
    /\ frame_device.chroma[1] = <<0, 0>>


(***************************************************************************)
(* Claims about reset_brightness (Spec).                                   *)
(***************************************************************************)
\* the worker returns from a ResetBrightness action in this step
ResetReturns == action.tag = "ResetBrightness" /\ action'.tag = "none"

\* C36: after completed controller operations that include reset_brightness
\* the cached per-LED value array equals the brightness values last written
\* to the device: after reset_brightness every cached value is 0xFF, so that
\* a second reset_brightness emits no report and a later update_colors with
\* with_brightness = true diffs against what the device holds.
C36_CacheFollowsReset ==
    [][ResetReturns =>
         /\ \A k \in 1..Len(state'.value) : state'.value[k] = 255
         /\ state'.value = device'.value
         /\ reset_brightness(state').reports = <<>>]_vars


(***************************************************************************)
(* Claims about UpdateColors actions within count_leds (SpecRange).        *)
(***************************************************************************)
\* C37: perform_action never panics while it holds the queue lock: for every
\* queued and every newly submitted UpdateColors action whose offset and
\* length are within count_leds, equal offsets with different lengths and
\* one range inside the other included, the index arithmetic of merge_colors
\* stays within the merged vector, so the queue lock is never poisoned and
\* later perform_action calls and the worker keep working.
C37_QueueLockNeverPoisoned == ~poisoned


(***************************************************************************)
(* Claims about into_config (SpecRecover).                                 *)
(***************************************************************************)
\* C38: into_config succeeds in every interleaving with the actor's worker:
\* called while the worker is in the middle of an action, or while another
\* clone of the handle exists, it returns the Config and does not panic.
C38_IntoConfigSucceeds == recovered # "panicked"


(***************************************************************************)
(* Claims about the Configs of the registry (SpecRegistry).                *)
(***************************************************************************)
\* the registered keyboards built from the config
OwnersOf(c) == {k \in 1..Len(keyboards) : keyboards[k].config = c}

\* C39: after any sequence of enumeration, connect and disconnect events,
\* connects whose keyboard initialisation fails included, every Config loaded
\* at startup is either in the pending map or owned by exactly one
\* registered actor, never both and never neither.
C39_ConfigsConserved ==
    \A c \in StartConfigs :
        \/ c \in configs /\ OwnersOf(c) = {}
        \/ c \notin configs /\ Cardinality(OwnersOf(c)) = 1


(***************************************************************************)
(* Claims about the GetControllerData buffer (SpecData).                   *)
(***************************************************************************)
\* the fields of that name, and the value of the one field of that name
FieldsNamed(name) == SelectSeq(controller_data, LAMBDA f : f.name = name)
ValueOf(name) == FieldsNamed(name)[1].value

\* C40: in the GetControllerData payload led_count equals the number of LED
\* records written and color_count the number of per-LED colours written,
\* for every Config, one whose LED indices are sparse included; the leading
\* data_len equals the total length of the payload.
C40_CountsMatchRecords ==
    controller_data # <<>> =>
        /\ ValueOf("led_count") = Len(FieldsNamed("led_value"))
        /\ ValueOf("color_count") = Len(FieldsNamed("led_color"))
        /\ ValueOf("data_size") = SumBytes(controller_data)

=============================================================================
